---- MODULE Spec2Model ----
(***************************************************************************)
(* A model of the ResponseWriter of protoplugin and of the validation and  *)
(* normalization of the CodeGeneratorResponse it builds.                   *)
(*                                                                         *)
(* Strings the code inspects character by character (file names) are       *)
(* sequences of one-character strings; strings the code only compares or   *)
(* concatenates (contents) are sequences of tokens; strings the code only  *)
(* compares with "" (insertion points, error messages) are TLA+ strings.   *)
(* An optional protobuf field that the code reads through its getter only  *)
(* is modelled by the getter's value (nil reads as the zero value); the    *)
(* Content field, whose pointer the code tests against nil, keeps the      *)
(* distinction between absent and empty.                                   *)
(* A file list is a Go slice of pointers to records; the records of a list *)
(* are distinct objects, so a list is modelled as the sequence of its      *)
(* records and a slice of pointers into it as a sequence of indices.       *)
(* Paths follow the '/'-separated (Unix) build, where filepath.ToSlash is  *)
(* the identity.                                                           *)
(***************************************************************************)
EXTENDS Integers, Sequences, FiniteSets, TLC

(***************************************************************************)
(* Bounds of the model.                                                    *)
(***************************************************************************)
\* The number of file records a behaviour passes to the writer.
MaxFiles == 3
\* The number of calls of ToCodeGeneratorResponse in a behaviour.
MaxFinalize == 2

(***************************************************************************)
(* Program constants.                                                      *)
(***************************************************************************)
FEATURE_PROTO3_OPTIONAL == 1
FEATURE_SUPPORTS_EDITIONS == 2
allSupportedFeaturesMask == 3

(***************************************************************************)
(* Bitwise operations on the uint64 feature mask (the model uses the low   *)
(* FeatureBits bits).                                                      *)
(***************************************************************************)
FeatureBits == 3
\* The number of paths and descriptors of a CodeGeneratorRequest.
MaxRequestSize == 5
\* The length of a path given to validateAndNormalizePath.
MaxPathLen == 6
\* The number of program arguments.
MaxArgs == 2
MaxOptions == 2
MaxVersionNumber == 4
MaxThreads == 3
MaxAccessorCalls == 2
MaxGoroutines == 2
MaxCalls == 3

RECURSIVE BitOr(_, _, _)
BitOr(x, y, n) ==
    IF n = 0 THEN 0
    ELSE (IF x % 2 = 1 \/ y % 2 = 1 THEN 1 ELSE 0) + 2 * BitOr(x \div 2, y \div 2, n - 1)

RECURSIVE BitAnd(_, _, _)
BitAnd(x, y, n) ==
    IF n = 0 THEN 0
    ELSE (IF x % 2 = 1 /\ y % 2 = 1 THEN 1 ELSE 0) + 2 * BitAnd(x \div 2, y \div 2, n - 1)

Or(x, y) == BitOr(x, y, FeatureBits)
And(x, y) == BitAnd(x, y, FeatureBits)

(***************************************************************************)
(* Paths: filepath.Clean, filepath.IsAbs, strings.HasPrefix.               *)
(***************************************************************************)
IsPathSeparator(c) == c = "/"

\* The lazybuf's backward scan of a ".." element: w is the write index after
\* the first decrement.
RECURSIVE CleanBacktrack(_, _, _)
CleanBacktrack(out, w, dotdot) ==
    IF w > dotdot /\ ~IsPathSeparator(out[w + 1])
    THEN CleanBacktrack(out, w - 1, dotdot)
    ELSE SubSeq(out, 1, w)

\* The end (exclusive, 1-based) of the path element that starts at r.
RECURSIVE ElementEnd(_, _)
ElementEnd(path, r) ==
    IF r <= Len(path) /\ ~IsPathSeparator(path[r]) THEN ElementEnd(path, r + 1) ELSE r

RECURSIVE CleanLoop(_, _, _, _, _)
CleanLoop(path, r, out, dotdot, rooted) ==
    LET n == Len(path) IN
    IF r > n THEN out
    ELSE IF IsPathSeparator(path[r])
         THEN \* empty path element
              CleanLoop(path, r + 1, out, dotdot, rooted)
    ELSE IF path[r] = "." /\ (r = n \/ IsPathSeparator(path[r + 1]))
         THEN \* . element
              CleanLoop(path, r + 1, out, dotdot, rooted)
    ELSE IF path[r] = "." /\ path[r + 1] = "." /\ (r + 1 = n \/ IsPathSeparator(path[r + 2]))
         THEN \* .. element: remove to last separator
              IF Len(out) > dotdot
              THEN CleanLoop(path, r + 2, CleanBacktrack(out, Len(out) - 1, dotdot), dotdot, rooted)
              ELSE IF ~rooted
                   THEN LET o == (IF Len(out) > 0 THEN Append(out, "/") ELSE out) \o <<".", ".">>
                        IN  CleanLoop(path, r + 2, o, Len(o), rooted)
                   ELSE CleanLoop(path, r + 2, out, dotdot, rooted)
    ELSE \* real path element: add slash if needed, copy element
         LET o == IF (rooted /\ Len(out) # 1) \/ (~rooted /\ Len(out) # 0)
                  THEN Append(out, "/") ELSE out
             e == ElementEnd(path, r)
         IN  CleanLoop(path, e, o \o SubSeq(path, r, e - 1), dotdot, rooted)

Clean(path) ==
    IF path = <<>> THEN <<".">>
    ELSE LET rooted == IsPathSeparator(path[1])
             out == CleanLoop(path, IF rooted THEN 2 ELSE 1,
                              IF rooted THEN <<"/">> ELSE <<>>,
                              IF rooted THEN 1 ELSE 0, rooted)
         IN  IF out = <<>> THEN <<".">> ELSE out

IsAbs(path) == Len(path) > 0 /\ path[1] = "/"

\* strings.HasPrefix that finds no prefix.
HasPrefixNever(s, prefix) == FALSE

HasPrefix(s, prefix) == Len(s) >= Len(prefix) /\ SubSeq(s, 1, Len(prefix)) = prefix

\* validateAndNormalizePath that checks the path as given, without cleaning it.
validateAndNormalizePathUncleaned(path) ==
    IF path = <<>> THEN [err |-> "path was empty", path |-> <<>>]
    ELSE IF IsAbs(path)
         THEN [err |-> "path should be relative", path |-> <<>>]
         ELSE IF HasPrefix(path, <<".", ".", "/">>)
         THEN [err |-> "path should not jump context", path |-> <<>>]
         ELSE [err |-> "", path |-> path]

\* validateAndNormalizePath: the error ("" for none) and the normalized path.
validateAndNormalizePath(path) ==
    IF path = <<>> THEN [err |-> "path was empty", path |-> <<>>]
    ELSE LET normalizedPath == Clean(path) IN
         IF IsAbs(normalizedPath)
         THEN [err |-> "path should be relative", path |-> <<>>]
         ELSE IF HasPrefix(normalizedPath, <<".", ".", "/">>)
         THEN [err |-> "path should not jump context", path |-> <<>>]
         ELSE [err |-> "", path |-> normalizedPath]

(***************************************************************************)
(* CodeGeneratorResponse_File records.                                     *)
(***************************************************************************)
\* A *string field: nil, or proto.String(s).
NilString == [set |-> FALSE, val |-> <<>>]
ProtoString(s) == [set |-> TRUE, val |-> s]

ResponseFile(name, insertionPoint, content) ==
    [Name |-> name, InsertionPoint |-> insertionPoint, Content |-> content]

GetName(file) == file.Name
GetInsertionPoint(file) == file.InsertionPoint
GetContent(file) == file.Content.val

\* The records a slice of pointers (indices into heap) points to.
Deref(heap, ptrs) == [k \in 1..Len(ptrs) |-> heap[ptrs[k]]]

(***************************************************************************)
(* Phase A: validateAndNormalizeCodeGeneratorResponseFilesWithPotential-   *)
(* EmptyNames.  heap is the input list, whose records the loop changes in  *)
(* place; prev is the index of prevFile; result is resultFiles.            *)
(***************************************************************************)
\* AppendContent with the two contents concatenated in the wrong order.
AppendContentReversed(prevFile, curFile) ==
    IF curFile.Content.set
    THEN IF ~prevFile.Content.set
         THEN [prevFile EXCEPT !.Content = curFile.Content]
         ELSE [prevFile EXCEPT !.Content = ProtoString(GetContent(curFile) \o GetContent(prevFile))]
    ELSE prevFile

\* prevFile after the content of the nameless curFile was appended to it.
AppendContent(prevFile, curFile) ==
    IF curFile.Content.set
    THEN IF ~prevFile.Content.set
         THEN [prevFile EXCEPT !.Content = curFile.Content]
         ELSE [prevFile EXCEPT !.Content = ProtoString(GetContent(prevFile) \o GetContent(curFile))]
    ELSE prevFile

RECURSIVE EmptyNamesLoop(_, _, _, _)
EmptyNamesLoop(heap, prev, result, i) ==
    IF i > Len(heap) THEN [err |-> "", heap |-> heap, result |-> result]
    ELSE LET curFile == heap[i]
             atEnd == i = Len(heap)
         IN  IF GetName(curFile) # <<>>
             THEN EmptyNamesLoop(heap, i,
                                 IF atEnd THEN result \o <<prev, i>> ELSE Append(result, prev),
                                 i + 1)
             ELSE IF GetInsertionPoint(curFile) # ""
             THEN [err |-> "empty name with non-empty insertion point",
                   heap |-> heap, result |-> <<>>]
             ELSE EmptyNamesLoop([heap EXCEPT ![prev] = AppendContent(heap[prev], curFile)],
                                 prev,
                                 IF atEnd THEN Append(result, prev) ELSE result,
                                 i + 1)

\* FilesWithPotentialEmptyNames without the check of the first record's name.
FilesWithPotentialEmptyNamesUnchecked(files) ==
    IF Len(files) = 0 THEN [err |-> "", heap |-> files, result |-> <<>>]
    ELSE IF Len(files) = 1 THEN [err |-> "", heap |-> files, result |-> <<1>>]
    ELSE EmptyNamesLoop(files, 1, <<>>, 2)

FilesWithPotentialEmptyNames(files) ==
    IF Len(files) = 0 THEN [err |-> "", heap |-> files, result |-> <<>>]
    ELSE IF GetName(files[1]) = <<>>
    THEN [err |-> "first value had no name set", heap |-> files, result |-> <<>>]
    ELSE IF Len(files) = 1 THEN [err |-> "", heap |-> files, result |-> <<1>>]
    ELSE EmptyNamesLoop(files, 1, <<>>, 2)

(***************************************************************************)
(* Phase B: validateAndNormalizeCodeGeneratorResponseFilesWithPotential-   *)
(* Duplicates.  lenient says that lenientResponseValidateErrorFunc is not  *)
(* nil; warnings is the sequence of errors it was called with.             *)
(***************************************************************************)
UnnormalizedWarning(name, normalizedName) ==
    [kind |-> "unnormalized", name |-> name, normalizedName |-> normalizedName]
DuplicateWarning(name) ==
    [kind |-> "duplicate", name |-> name, normalizedName |-> name]

\* IsDuplicate with the test of the insertion point inverted.
IsDuplicateInverted(fileNames, name, insertionPoint) ==
    name \in fileNames /\ insertionPoint # ""

\* The condition under which a record is not added to resultFiles.
IsDuplicate(fileNames, name, insertionPoint) ==
    name \in fileNames /\ insertionPoint = ""

\* RememberName that records nothing.
ForgetName(fileNames, name) == fileNames

\* fileNames after a record was added to resultFiles.
RememberName(fileNames, name) == fileNames \cup {name}

\* The list after the name of record i was coerced to its normalized form.
CoerceName(heap, i, normalizedName) ==
    IF GetName(heap[i]) # normalizedName
    THEN [heap EXCEPT ![i].Name = normalizedName] ELSE heap

\* The warnings after record i, named name, was normalized.
WarnUnnormalized(warnings, name, normalizedName) ==
    IF name # normalizedName
    THEN Append(warnings, UnnormalizedWarning(name, normalizedName)) ELSE warnings

DuplicatesFailed(err, heap, warnings) ==
    [err |-> err, heap |-> heap, result |-> <<>>, warnings |-> warnings]

RECURSIVE DuplicatesLoop(_, _, _, _, _, _)

\* The duplicate check of record i, whose name is now the normalized one.
DuplicatesCheck(heap, lenient, result, fileNames, warnings, i) ==
    IF IsDuplicate(fileNames, GetName(heap[i]), GetInsertionPoint(heap[i]))
    THEN IF lenient
         THEN DuplicatesLoop(heap, lenient, result, fileNames,
                             Append(warnings, DuplicateWarning(GetName(heap[i]))), i + 1)
         ELSE DuplicatesFailed("duplicate file name", heap, warnings)
    ELSE DuplicatesLoop(heap, lenient, Append(result, i),
                        RememberName(fileNames, GetName(heap[i])), warnings, i + 1)

\* The loop body for record i, given what validateAndNormalizePath returned
\* for its name.
DuplicatesStep(heap, lenient, result, fileNames, warnings, i, norm) ==
    IF norm.err # "" THEN DuplicatesFailed(norm.err, heap, warnings)
    ELSE IF GetName(heap[i]) # norm.path /\ ~lenient
    THEN DuplicatesFailed("unnormalized file name", heap, warnings)
    ELSE DuplicatesCheck(CoerceName(heap, i, norm.path), lenient, result, fileNames,
                         WarnUnnormalized(warnings, GetName(heap[i]), norm.path), i)

DuplicatesLoop(heap, lenient, result, fileNames, warnings, i) ==
    IF i > Len(heap)
    THEN [err |-> "", heap |-> heap, result |-> result, warnings |-> warnings]
    ELSE DuplicatesStep(heap, lenient, result, fileNames, warnings, i,
                        validateAndNormalizePath(GetName(heap[i])))

FilesWithPotentialDuplicates(files, lenient) ==
    DuplicatesLoop(files, lenient, <<>>, {}, <<>>, 1)

(***************************************************************************)
(* Phase C: the checks of the feature mask and of the editions.            *)
(***************************************************************************)
\* UnknownFeatures for a mask that would cover every bit.
UnknownFeaturesNever(supportedFeatures) == FALSE

UnknownFeatures(supportedFeatures) ==
    Or(supportedFeatures, allSupportedFeaturesMask) # allSupportedFeaturesMask

SupportsEditions(supportedFeatures) ==
    And(supportedFeatures, FEATURE_SUPPORTS_EDITIONS) # 0

\* FeaturesError without the comparison of the two editions.
FeaturesErrorUnordered(response) ==
    IF UnknownFeatures(response.SupportedFeatures)
    THEN "supported_features: unknown CodeGeneratorResponse.Features"
    ELSE IF SupportsEditions(response.SupportedFeatures)
    THEN IF response.MinimumEdition = 0
         THEN "FEATURE_SUPPORTS_EDITIONS specified but no minimum_edition set"
         ELSE IF response.MaximumEdition = 0
         THEN "FEATURE_SUPPORTS_EDITIONS specified but no maximum_edition set"
         ELSE ""
    ELSE ""

FeaturesError(response) ==
    IF UnknownFeatures(response.SupportedFeatures)
    THEN "supported_features: unknown CodeGeneratorResponse.Features"
    ELSE IF SupportsEditions(response.SupportedFeatures)
    THEN IF response.MinimumEdition = 0
         THEN "FEATURE_SUPPORTS_EDITIONS specified but no minimum_edition set"
         ELSE IF response.MaximumEdition = 0
         THEN "FEATURE_SUPPORTS_EDITIONS specified but no maximum_edition set"
         ELSE IF response.MinimumEdition > response.MaximumEdition
         THEN "minimum_edition is greater than maximum_edition"
         ELSE ""
    ELSE ""

(***************************************************************************)
(* validateAndNormalizeCodeGeneratorResponse: the error ("" for none), the *)
(* response as the call leaves it, and the warnings it emitted.            *)
(***************************************************************************)
\* AssignFiles that never assigns.
AssignFilesNever(heap, result) == heap

\* response.File after a phase that succeeded: the records heap of the list
\* it had, replaced by the phase's result only if the length differs.
AssignFiles(heap, result) ==
    IF Len(heap) # Len(result) THEN Deref(heap, result) ELSE heap

\* The checks that follow the two phases over the files.
ValidateFeatures(response, warnings) ==
    [err |-> FeaturesError(response), response |-> response, warnings |-> warnings]

\* What follows phase B, given its outcome b.
ValidateAfterDuplicates(response, b) ==
    IF b.err # ""
    THEN [err |-> b.err, response |-> [response EXCEPT !.File = b.heap],
          warnings |-> b.warnings]
    ELSE ValidateFeatures([response EXCEPT !.File = AssignFiles(b.heap, b.result)],
                          b.warnings)

\* What follows phase A, given its outcome a.
ValidateAfterEmptyNames(response, lenient, a) ==
    IF a.err # ""
    THEN [err |-> a.err, response |-> [response EXCEPT !.File = a.heap],
          warnings |-> <<>>]
    ELSE ValidateAfterDuplicates(
             response,
             FilesWithPotentialDuplicates(AssignFiles(a.heap, a.result), lenient))

validateAndNormalizeCodeGeneratorResponse(response, lenient) ==
    ValidateAfterEmptyNames(response, lenient, FilesWithPotentialEmptyNames(response.File))

(***************************************************************************)
(* The CodeGeneratorRequest and its validation.  An error is the field it  *)
(* is reported for and what is wrong with it; the offending path, which    *)
(* the message also quotes, is left out.                                   *)
(***************************************************************************)
NoError == [field |-> "", what |-> ""]
FieldError(fieldName, what) == [field |-> fieldName, what |-> what]

\* filepath.Ext: the suffix from the last dot of the last element on.
RECURSIVE ExtFrom(_, _)
ExtFrom(path, i) ==
    IF i < 1 \/ IsPathSeparator(path[i]) THEN <<>>
    ELSE IF path[i] = "." THEN SubSeq(path, i, Len(path))
    ELSE ExtFrom(path, i - 1)

Ext(path) == ExtFrom(path, Len(path))

ProtoExt == <<".", "p", "r", "o", "t", "o">>

\* The comparison of a path with its normalization n.
CheckNormalized(fieldName, path, n) ==
    IF n.err # "" THEN FieldError(fieldName, n.err)
    ELSE IF path # n.path THEN FieldError(fieldName, "path to be given as normalized")
    ELSE NoError

validateAndCheckPathIsNormalized(fieldName, path) ==
    CheckNormalized(fieldName, path, validateAndNormalizePath(path))

\* The extension check that follows a normalization check that passed.
CheckProtoExt(fieldName, path, err) ==
    IF err # NoError THEN err
    ELSE IF Ext(path) # ProtoExt
    THEN FieldError(fieldName, "path should have the .proto file extension")
    ELSE NoError

validateAndCheckProtoPathIsNormalized(fieldName, path) ==
    CheckProtoExt(fieldName, path, validateAndCheckPathIsNormalized(fieldName, path))

RECURSIVE ProtoPathsLoop(_, _, _, _)
\* One path of the loop, given the error err of its own check.
ProtoPathsStep(fieldName, paths, pathMap, i, err) ==
    IF err # NoError THEN err
    ELSE IF paths[i] \in pathMap THEN FieldError(fieldName, "duplicate path")
    ELSE ProtoPathsLoop(fieldName, paths, pathMap \cup {paths[i]}, i + 1)

ProtoPathsLoop(fieldName, paths, pathMap, i) ==
    IF i > Len(paths) THEN NoError
    ELSE ProtoPathsStep(fieldName, paths, pathMap, i,
                        validateAndCheckProtoPathIsNormalized(fieldName, paths[i]))

validateAndCheckProtoPathsAreNormalized(fieldName, paths) ==
    ProtoPathsLoop(fieldName, paths, {}, 1)

\* A *FileDescriptorProto: nil, or a descriptor with a name and dependencies.
NilFileDescriptorProto == [isNil |-> TRUE, Name |-> <<>>, Dependency |-> <<>>]
FileDescriptorProto(name, dependency) ==
    [isNil |-> FALSE, Name |-> name, Dependency |-> dependency]

\* validateFileDescriptorProto that stops after the check of the name.
CheckDependencyNever(fieldName, fileDescriptorProto, err) == err

\* The check of the dependencies, which follows the check of the name.
CheckDependency(fieldName, fileDescriptorProto, err) ==
    IF err # NoError THEN err
    ELSE validateAndCheckProtoPathsAreNormalized(fieldName \o ".dependency",
                                                 fileDescriptorProto.Dependency)

validateFileDescriptorProto(fieldName, fileDescriptorProto) ==
    IF fileDescriptorProto.isNil THEN FieldError(fieldName, "nil")
    ELSE CheckDependency(
             fieldName, fileDescriptorProto,
             validateAndCheckProtoPathIsNormalized(fieldName \o ".name",
                                                   fileDescriptorProto.Name))

\* The first loop of validateCodeGeneratorRequestFileDescriptorProtos: the
\* error, and the names of the descriptors (fileDescriptorProtoNameMap).
RECURSIVE NameMapLoop(_, _, _, _)
NameMapStep(fieldName, fileDescriptorProtos, nameMap, i, err) ==
    IF err # NoError THEN [err |-> err, nameMap |-> nameMap]
    ELSE IF fileDescriptorProtos[i].Name \in nameMap
    THEN [err |-> FieldError(fieldName, "duplicate path"), nameMap |-> nameMap]
    ELSE NameMapLoop(fieldName, fileDescriptorProtos,
                     nameMap \cup {fileDescriptorProtos[i].Name}, i + 1)

NameMapLoop(fieldName, fileDescriptorProtos, nameMap, i) ==
    IF i > Len(fileDescriptorProtos) THEN [err |-> NoError, nameMap |-> nameMap]
    ELSE NameMapStep(fieldName, fileDescriptorProtos, nameMap, i,
                     validateFileDescriptorProto(fieldName, fileDescriptorProtos[i]))

Elements(s) == {s[i] : i \in 1..Len(s)}

\* The second loop that accepts every file to generate.
NotContainedNever(filesToGenerate, nameMap) == FALSE

\* The second loop: some file to generate is not a name of the map.
NotContained(filesToGenerate, nameMap) ==
    \E i \in 1..Len(filesToGenerate) : filesToGenerate[i] \notin nameMap

\* The third loop: some name of the map is not a file to generate.
NotGenerated(nameMap, filesToGenerate) ==
    \E name \in nameMap : name \notin Elements(filesToGenerate)

\* What follows the first loop, given its outcome m.
CheckContained(fieldName, filesToGenerate, equalToOrSupersetOfFilesToGenerate, m) ==
    IF m.err # NoError THEN m.err
    ELSE IF NotContained(filesToGenerate, m.nameMap)
    THEN FieldError("file_to_generate", "path is not contained within " \o fieldName)
    ELSE IF equalToOrSupersetOfFilesToGenerate /\ NotGenerated(m.nameMap, filesToGenerate)
    THEN FieldError(fieldName, "path is not contained within file_to_generate")
    ELSE NoError

validateCodeGeneratorRequestFileDescriptorProtos(fieldName, fileDescriptorProtos, filesToGenerate, equalToOrSupersetOfFilesToGenerate) ==
    CheckContained(fieldName, filesToGenerate, equalToOrSupersetOfFilesToGenerate,
                   NameMapLoop(fieldName, fileDescriptorProtos, {}, 1))

\* A *pluginpb.Version: nil, or the three numbers.
NilVersion == [isNil |-> TRUE, Major |-> 0, Minor |-> 0, Patch |-> 0]
Version(major, minor, patch) ==
    [isNil |-> FALSE, Major |-> major, Minor |-> minor, Patch |-> patch]

validateCompilerVersion(version) ==
    IF version.Major < 0 THEN "major: negative"
    ELSE IF version.Minor < 0 THEN "minor: negative"
    ELSE IF version.Patch < 0 THEN "patch: negative"
    ELSE ""

\* A *pluginpb.CodeGeneratorRequest: nil, or the fields the validation reads.
NilCodeGeneratorRequest ==
    [isNil |-> TRUE, FileToGenerate |-> <<>>, ProtoFile |-> <<>>,
     SourceFileDescriptors |-> <<>>, CompilerVersion |-> NilVersion]
CodeGeneratorRequest(fileToGenerate, protoFile, sourceFileDescriptors, compilerVersion) ==
    [isNil |-> FALSE, FileToGenerate |-> fileToGenerate, ProtoFile |-> protoFile,
     SourceFileDescriptors |-> sourceFileDescriptors,
     CompilerVersion |-> compilerVersion]

\* The last check of validateCodeGeneratorRequest, given the error of the
\* checks before it.
CheckCompilerVersion(request, err) ==
    IF err # NoError THEN err
    ELSE IF ~request.CompilerVersion.isNil
            /\ validateCompilerVersion(request.CompilerVersion) # ""
    THEN FieldError("compiler_version", validateCompilerVersion(request.CompilerVersion))
    ELSE NoError

\* CheckSourceFileDescriptors that checks compiler_version first.
CheckSourceFileDescriptorsAfterVersion(request, err) ==
    IF err # NoError THEN err
    ELSE IF CheckCompilerVersion(request, NoError) # NoError
    THEN CheckCompilerVersion(request, NoError)
    ELSE IF Len(request.SourceFileDescriptors) > 0
    THEN validateCodeGeneratorRequestFileDescriptorProtos(
             "source_file_descriptors", request.SourceFileDescriptors,
             request.FileToGenerate, TRUE)
    ELSE NoError

\* The check of source_file_descriptors, given the error of proto_file's.
CheckSourceFileDescriptors(request, err) ==
    IF err # NoError THEN err
    ELSE CheckCompilerVersion(
             request,
             IF Len(request.SourceFileDescriptors) > 0
             THEN validateCodeGeneratorRequestFileDescriptorProtos(
                      "source_file_descriptors", request.SourceFileDescriptors,
                      request.FileToGenerate, TRUE)
             ELSE NoError)

\* The check of proto_file, given the error of file_to_generate's.
CheckProtoFile(request, err) ==
    IF err # NoError THEN err
    ELSE CheckSourceFileDescriptors(
             request,
             validateCodeGeneratorRequestFileDescriptorProtos(
                 "proto_file", request.ProtoFile, request.FileToGenerate, FALSE))

validateCodeGeneratorRequest(request) ==
    IF request.isNil THEN FieldError("CodeGeneratorRequest", "nil")
    ELSE IF Len(request.ProtoFile) = 0 THEN FieldError("proto_file", "empty")
    ELSE IF Len(request.FileToGenerate) = 0 THEN FieldError("file_to_generate", "empty")
    ELSE CheckProtoFile(
             request,
             validateAndCheckProtoPathsAreNormalized("file_to_generate",
                                                     request.FileToGenerate))

(***************************************************************************)
(* The Request.  A *FileDescriptorProto an accessor returns is named by    *)
(* the list of the CodeGeneratorRequest that holds it and its place there. *)
(***************************************************************************)
NilRef == [list |-> "nil", index |-> 0]
ProtoFileRef(i) == [list |-> "proto_file", index |-> i]
SourceFileDescriptorRef(i) == [list |-> "source_file_descriptors", index |-> i]

\* The descriptor a reference points to.
Descriptor(codeGeneratorRequest, ref) ==
    IF ref.list = "proto_file" THEN codeGeneratorRequest.ProtoFile[ref.index]
    ELSE IF ref.list = "source_file_descriptors"
    THEN codeGeneratorRequest.SourceFileDescriptors[ref.index]
    ELSE NilFileDescriptorProto

\* newRequest: the error and whether a *Request is returned.
newRequest(codeGeneratorRequest) ==
    [called |-> TRUE,
     err |-> validateCodeGeneratorRequest(codeGeneratorRequest),
     present |-> validateCodeGeneratorRequest(codeGeneratorRequest) = NoError,
     sourceRetentionOptions |-> FALSE]

getFilesToGenerateMap(codeGeneratorRequest) == Elements(codeGeneratorRequest.FileToGenerate)

\* getSourceFileDescriptorNameToFileDescriptorProtoMap, applied to a name: a
\* later descriptor of the same name replaces an earlier one, and a name
\* that is not in the map gives nil.
SourceFileDescriptorOfName(codeGeneratorRequest, name) ==
    LET source == codeGeneratorRequest.SourceFileDescriptors
        places == {i \in 1..Len(source) : source[i].Name = name}
    IN  IF places = {} THEN NilRef
        ELSE SourceFileDescriptorRef(CHOOSE i \in places : \A j \in places : j <= i)

\* validateSourceFileDescriptorsPresent that never fails.
validateSourceFileDescriptorsPresentNever(codeGeneratorRequest) == ""

validateSourceFileDescriptorsPresent(codeGeneratorRequest) ==
    IF Len(codeGeneratorRequest.SourceFileDescriptors) = 0
       /\ Len(codeGeneratorRequest.ProtoFile) > 0
    THEN "source_file_descriptors not set on CodeGeneratorRequest but source-retention options requested"
    ELSE ""

\* GenerateFileDescriptorProtos that takes proto_file even for a Request
\* with source-retention options.
GenerateFileDescriptorProtosOfProtoFile(codeGeneratorRequest, sourceRetentionOptions) ==
    SelectSeq([i \in 1..Len(codeGeneratorRequest.ProtoFile) |-> ProtoFileRef(i)],
              LAMBDA ref : codeGeneratorRequest.ProtoFile[ref.index].Name
                               \in getFilesToGenerateMap(codeGeneratorRequest))

GenerateFileDescriptorProtos(codeGeneratorRequest, sourceRetentionOptions) ==
    IF sourceRetentionOptions
    THEN [i \in 1..Len(codeGeneratorRequest.SourceFileDescriptors) |->
              SourceFileDescriptorRef(i)]
    ELSE SelectSeq([i \in 1..Len(codeGeneratorRequest.ProtoFile) |-> ProtoFileRef(i)],
                   LAMBDA ref : codeGeneratorRequest.ProtoFile[ref.index].Name
                                    \in getFilesToGenerateMap(codeGeneratorRequest))

AllFileDescriptorProtos(codeGeneratorRequest, sourceRetentionOptions) ==
    IF ~sourceRetentionOptions
    THEN [i \in 1..Len(codeGeneratorRequest.ProtoFile) |-> ProtoFileRef(i)]
    ELSE [i \in 1..Len(codeGeneratorRequest.ProtoFile) |->
              IF codeGeneratorRequest.ProtoFile[i].Name
                     \in getFilesToGenerateMap(codeGeneratorRequest)
              THEN SourceFileDescriptorOfName(codeGeneratorRequest,
                                              codeGeneratorRequest.ProtoFile[i].Name)
              ELSE ProtoFileRef(i)]

(***************************************************************************)
(* StripSourceRetentionOptions.  A descriptor is a record with the         *)
(* reference ref of the Go object, its kind, a field name that is no       *)
(* option, its options, and one list of children for each repeated field   *)
(* the stripper walks, in the order it walks them.  An options message is  *)
(* nil or has a reference and the set of its set fields, each with its     *)
(* number, its value and whether its retention is RETENTION_SOURCE.        *)
(***************************************************************************)
fileMessagesTag == 4
fileEnumsTag == 5
fileServicesTag == 6
fileExtensionsTag == 7
fileOptionsTag == 8
messageFieldsTag == 2
messageNestedMessagesTag == 3
messageEnumsTag == 4
messageExtensionRangesTag == 5
messageExtensionsTag == 6
messageOptionsTag == 7
messageOneofsTag == 8
extensionRangeOptionsTag == 3
fieldOptionsTag == 8
oneofOptionsTag == 2
enumValuesTag == 2
enumOptionsTag == 3
enumValOptionsTag == 3
serviceMethodsTag == 2
serviceOptionsTag == 3
methodOptionsTag == 4

\* The reference of an object of the input, and of the object allocated in
\* its place.
Ref(n) == [new |-> FALSE, of |-> n]
NewRef(ref) == [new |-> TRUE, of |-> ref.of]

\* A sourcePath: nil, or its elements.
NilSourcePath == [isNil |-> TRUE, elements |-> <<>>]
EmptySourcePath == [isNil |-> FALSE, elements |-> <<>>]

push(p, element) ==
    IF p.isNil THEN p ELSE [p EXCEPT !.elements = Append(@, element)]

\* A *sourcePathTrie: nil, or its nodes, each named by the path that leads
\* to it from the root, and those of them whose removed is true.
NilSourcePathTrie == [isNil |-> TRUE, nodes |-> {}, removed |-> {}]
EmptySourcePathTrie == [isNil |-> FALSE, nodes |-> {<<>>}, removed |-> {}]

Prefixes(elements) == {SubSeq(elements, 1, k) : k \in 0..Len(elements)}

addPath(t, p) ==
    IF t.isNil THEN t
    ELSE [t EXCEPT !.nodes = @ \cup Prefixes(p.elements),
                   !.removed = @ \cup {p.elements}]

\* isRemoved on the node the first k elements of p lead to.
RECURSIVE isRemovedFrom(_, _, _)
isRemovedFrom(t, p, k) ==
    IF SubSeq(p, 1, k) \in t.removed THEN TRUE
    ELSE IF k = Len(p) THEN FALSE
    ELSE IF SubSeq(p, 1, k + 1) \notin t.nodes THEN FALSE
    ELSE isRemovedFrom(t, p, k + 1)

isRemovedNever(t, p) == FALSE

isRemoved(t, p) == ~t.isNil /\ isRemovedFrom(t, p, 0)

NilOptions == [isNil |-> TRUE, ref |-> Ref(0), fields |-> {}]
Options(n, fields) == [isNil |-> FALSE, ref |-> Ref(n), fields |-> fields]
OptionField(number, source, val) ==
    [number |-> number, source |-> source, val |-> val]

\* options == other, of two pointers.
SamePointer(options, other) ==
    /\ options.isNil = other.isNil
    /\ options.isNil \/ options.ref = other.ref

hasFieldToStrip(options) == \E field \in options.fields : field.source
FieldsToKeep(options) == {field \in options.fields : ~field.source}

RECURSIVE AddFieldPaths(_, _, _)
AddFieldPaths(removedPaths, p, fields) ==
    IF fields = {} THEN removedPaths
    ELSE LET field == CHOOSE f \in fields : TRUE
         IN  AddFieldPaths(addPath(removedPaths, push(p, field.number)), p,
                           fields \ {field})

Stripped(options, removedPaths) ==
    [options |-> options, removedPaths |-> removedPaths]

stripSourceRetentionOptionsFromProtoMessageKeepingAll(options, p, removedPaths) ==
    Stripped(options, removedPaths)

stripSourceRetentionOptionsFromProtoMessage(options, p, removedPaths) ==
    IF ~hasFieldToStrip(options)
    THEN Stripped(options, removedPaths)
    ELSE IF FieldsToKeep(options) = {}
    THEN Stripped(NilOptions, addPath(removedPaths, p))
    ELSE Stripped([isNil |-> FALSE, ref |-> NewRef(options.ref),
                   fields |-> FieldsToKeep(options)],
                  AddFieldPaths(removedPaths, p,
                                options.fields \ FieldsToKeep(options)))

\* The tag of the options of a descriptor, and the repeated fields the
\* stripper walks, in its order, each with its tag.
OptionsTag(kind) ==
    CASE kind = "file" -> fileOptionsTag
      [] kind = "message" -> messageOptionsTag
      [] kind = "field" -> fieldOptionsTag
      [] kind = "oneof" -> oneofOptionsTag
      [] kind = "extensionRange" -> extensionRangeOptionsTag
      [] kind = "enum" -> enumOptionsTag
      [] kind = "enumValue" -> enumValOptionsTag
      [] kind = "service" -> serviceOptionsTag
      [] kind = "method" -> methodOptionsTag

ChildTags(kind) ==
    CASE kind = "file" ->
           <<fileMessagesTag, fileEnumsTag, fileExtensionsTag, fileServicesTag>>
      [] kind = "message" ->
           <<messageFieldsTag, messageOneofsTag, messageExtensionRangesTag,
             messageNestedMessagesTag, messageEnumsTag, messageExtensionsTag>>
      [] kind = "enum" -> <<enumValuesTag>>
      [] kind = "service" -> <<serviceMethodsTag>>
      [] OTHER -> <<>>

\* shallowCopy, and the assignments to the copy that follow it.
shallowCopy(msg) == [msg EXCEPT !.ref = NewRef(@)]

ReturnDescriptorAlwaysCopied(descriptor, acc) ==
    [descriptor |-> [shallowCopy(descriptor) EXCEPT !.options = acc.options,
                                                    !.children = acc.children],
     dirty |-> TRUE,
     removedPaths |-> acc.removedPaths]

ReturnDescriptor(descriptor, acc) ==
    [descriptor |-> IF ~acc.dirty THEN descriptor
                    ELSE [shallowCopy(descriptor)
                            EXCEPT !.options = acc.options,
                                   !.children = acc.children],
     dirty |-> acc.dirty,
     removedPaths |-> acc.removedPaths]

RECURSIVE stripSourceRetentionOptionsFrom(_, _, _)
RECURSIVE StripChildren(_, _, _, _)
RECURSIVE stripOptionsFromAllLoop(_, _, _, _)

\* One pass of the loop of stripOptionsFromAll, given what updateFunc
\* returned for slice[i].
stripOptionsFromAllStep(slice, p, i, acc, updated) ==
    stripOptionsFromAllLoop(slice, p, i + 1,
        IF ~acc.isNil
        THEN [acc EXCEPT !.updated[i] = updated.descriptor,
                         !.removedPaths = updated.removedPaths]
        ELSE IF updated.descriptor.ref # slice[i].ref
        THEN [isNil |-> FALSE,
              updated |-> [slice EXCEPT ![i] = updated.descriptor],
              removedPaths |-> updated.removedPaths]
        ELSE [acc EXCEPT !.removedPaths = updated.removedPaths])

stripOptionsFromAllLoop(slice, p, i, acc) ==
    IF i > Len(slice)
    THEN [slice |-> IF acc.isNil THEN slice ELSE acc.updated,
          changed |-> ~acc.isNil,
          removedPaths |-> acc.removedPaths]
    ELSE stripOptionsFromAllStep(slice, p, i, acc,
             stripSourceRetentionOptionsFrom(slice[i], push(p, i - 1),
                                             acc.removedPaths))

stripOptionsFromAll(slice, p, removedPaths) ==
    stripOptionsFromAllLoop(slice, p, 1,
        [isNil |-> TRUE, updated |-> <<>>, removedPaths |-> removedPaths])

\* The children of one repeated field are stripped.
ChildrenStripped(descriptor, p, i, acc, all) ==
    StripChildren(descriptor, p, i + 1,
        [acc EXCEPT !.children[i] = all.slice,
                    !.dirty = @ \/ all.changed,
                    !.removedPaths = all.removedPaths])

StripChildren(descriptor, p, i, acc) ==
    IF i > Len(ChildTags(descriptor.kind))
    THEN ReturnDescriptor(descriptor, acc)
    ELSE ChildrenStripped(descriptor, p, i, acc,
             stripOptionsFromAll(descriptor.children[i],
                                 push(p, ChildTags(descriptor.kind)[i]),
                                 acc.removedPaths))

\* The options of the descriptor are stripped.
OptionsStripped(descriptor, p, newOpts) ==
    StripChildren(descriptor, p, 1,
        [options |-> newOpts.options,
         children |-> descriptor.children,
         dirty |-> ~SamePointer(newOpts.options, descriptor.options),
         removedPaths |-> newOpts.removedPaths])

\* stripSourceRetentionOptionsFromMessage, ...FromField, ...FromOneof,
\* ...FromExtensionRange, ...FromEnum, ...FromEnumValue, ...FromService and
\* ...FromMethod, and the part of StripSourceRetentionOptions that has
\* their form.
stripSourceRetentionOptionsFrom(descriptor, p, removedPaths) ==
    OptionsStripped(descriptor, p,
        stripSourceRetentionOptionsFromProtoMessage(
            descriptor.options, push(p, OptionsTag(descriptor.kind)),
            removedPaths))

\* A *descriptorpb.SourceCodeInfo: nil, or the paths of its locations.
NilSourceCodeInfo == [isNil |-> TRUE, ref |-> Ref(0), Location |-> <<>>]
SourceCodeInfo(n, location) ==
    [isNil |-> FALSE, ref |-> Ref(n), Location |-> location]

RECURSIVE KeptLocations(_, _, _)
KeptLocations(location, removedPaths, i) ==
    IF i > Len(location) THEN <<>>
    ELSE IF isRemoved(removedPaths, location[i])
    THEN KeptLocations(location, removedPaths, i + 1)
    ELSE <<location[i]>> \o KeptLocations(location, removedPaths, i + 1)

stripSourcePathsForSourceRetentionOptions(sourceInfo, removedPaths) ==
    IF sourceInfo.isNil \/ Len(sourceInfo.Location) = 0 \/ removedPaths.isNil
    THEN sourceInfo
    ELSE [isNil |-> FALSE, ref |-> NewRef(sourceInfo.ref),
          Location |-> KeptLocations(sourceInfo.Location, removedPaths, 1)]

HasLocations(file) ==
    ~file.SourceCodeInfo.isNil /\ Len(file.SourceCodeInfo.Location) > 0

FileStripped(file, r) ==
    IF ~r.dirty THEN file
    ELSE [r.descriptor EXCEPT !.SourceCodeInfo =
              stripSourcePathsForSourceRetentionOptions(@, r.removedPaths)]

StripSourceRetentionOptions(file) ==
    FileStripped(file,
        stripSourceRetentionOptionsFrom(
            file,
            IF HasLocations(file) THEN EmptySourcePath ELSE NilSourcePath,
            IF HasLocations(file) THEN EmptySourcePathTrie
            ELSE NilSourcePathTrie))

(***************************************************************************)
(* CompilerVersion.  A string is the sequence of its characters.           *)
(***************************************************************************)
NilCompilerVersion ==
    [isNil |-> TRUE, Major |-> 0, Minor |-> 0, Patch |-> 0, Suffix |-> <<>>]
CompilerVersion(major, minor, patch, suffix) ==
    [isNil |-> FALSE, Major |-> major, Minor |-> minor, Patch |-> patch,
     Suffix |-> suffix]

\* fmt.Sprintf("%d", n) for n >= 0
RECURSIVE Decimal(_)
Decimal(n) ==
    IF n < 10
    THEN <<<<"0", "1", "2", "3", "4", "5", "6", "7", "8", "9">>[n + 1]>>
    ELSE Decimal(n \div 10) \o Decimal(n % 10)

WithSuffix(c, value) ==
    IF c.Suffix # <<>> THEN value \o <<"-">> \o c.Suffix ELSE value

String(c) ==
    IF c.isNil THEN <<>>
    ELSE IF c.Major <= 3 \/ c.Patch # 0
    THEN WithSuffix(c, Decimal(c.Major) \o <<".">> \o Decimal(c.Minor)
                        \o <<".">> \o Decimal(c.Patch))
    ELSE WithSuffix(c, Decimal(c.Major) \o <<".">> \o Decimal(c.Minor))

(***************************************************************************)
(* The responseWriter.                                                     *)
(***************************************************************************)
VARIABLES
    codeGeneratorResponse,  \* the fields of r.codeGeneratorResponse
    written,                \* r.written
    lenient,                \* r.lenientValidateErrorFunc # nil
    warnings,               \* the errors lenientValidateErrorFunc was called with
    ret,                    \* what the latest ToCodeGeneratorResponse returned
    lastCall,               \* the latest call: whether it was ToCodeGeneratorResponse,
                            \* and then the file list it found
    added,                  \* the number of records passed to the writer
    calls,                  \* the number of calls of ToCodeGeneratorResponse
    lastNonEmptyError,      \* the argument of the latest SetError(m) with m # ""
    lastSetError,           \* the argument of the latest SetError(m)
    unknownFeaturesSet,     \* SetSupportedFeatures was called with an unknown bit
    codeGeneratorRequest,   \* the CodeGeneratorRequest given to newRequest
    request,                \* what newRequest returned, and the Request's
                            \* sourceRetentionOptions
    accessed,               \* what the latest accessor of the Request returned
    givenPath,              \* a path given to validateAndNormalizePath
    firstPass,              \* what validateAndNormalizePath returned for it
    secondPass,             \* what it returned for the path it had returned
    args,                   \* env.Args
    version,                \* opts.version
    pc,                     \* where run is
    stdinRead,              \* io.ReadAll(env.Stdin): "no", "ok" or "failed"
    unmarshalled,           \* proto.Unmarshal: "no", "ok" or "failed"
    handled,                \* the number of calls of handler.Handle
    handlerRet,             \* what handler.Handle returned: "none", "nil" or "error"
    stdout,                 \* what was written to env.Stdout, write by write
    runRet,                 \* what run returned
    givenFile,              \* the file given to StripSourceRetentionOptions
    strippedFile,           \* what StripSourceRetentionOptions returned for it
    compilerVersion,        \* the *CompilerVersion String is called on
    versionString,          \* what String returned for it
    onceThreads,            \* where each goroutine is in the function onceValue returned, and its calls
    once,                   \* the sync.Once: done and the holder of its mutex
    onceValueVars,          \* valid and result of onceValue, and the number of calls of f
    onceReturned,           \* what the function returned to each goroutine, call by call
    lock,                   \* r.lock: the goroutine holding it for writing, and those holding it for reading
    goroutines,             \* where each goroutine is in its call on the responseWriter, with its arguments and locals
    completed,              \* the calls that returned, in the order of their return
    finalized,              \* what each ToCodeGeneratorResponse validated and returned
    started                 \* the number of calls begun

writerVars == <<codeGeneratorResponse, written, lenient, warnings, ret, lastCall,
                added, calls, lastNonEmptyError, lastSetError, unknownFeaturesSet>>
requestVars == <<codeGeneratorRequest, request, accessed>>
pathVars == <<givenPath, firstPass, secondPass>>

runVars == <<args, version, pc, stdinRead, unmarshalled, handled, handlerRet,
             stdout, runRet>>

stripVars == <<givenFile, strippedFile>>

versionVars == <<compilerVersion, versionString>>

onceVars == <<onceThreads, once, onceValueVars, onceReturned>>

lockVars == <<lock, goroutines, completed, finalized, started>>

vars == <<writerVars, requestVars, pathVars, runVars, stripVars, versionVars, onceVars, lockVars>>

\* What the calls on a responseWriter, on a Request and of
\* validateAndNormalizePath leave alone.
exceptWriter == <<requestVars, pathVars, runVars, stripVars, versionVars, onceVars, lockVars>>
exceptRequest == <<writerVars, pathVars, runVars, stripVars, versionVars, onceVars, lockVars>>
exceptPath == <<writerVars, requestVars, runVars, stripVars, versionVars, onceVars, lockVars>>
exceptStrip == <<writerVars, requestVars, pathVars, runVars, versionVars, onceVars, lockVars>>
exceptVersion == <<writerVars, requestVars, pathVars, runVars, stripVars, onceVars, lockVars>>
exceptOnce == <<writerVars, requestVars, pathVars, runVars, stripVars, versionVars, lockVars>>
\* The goroutines calling one responseWriter change the writer as well.
exceptLock == <<requestVars, pathVars, runVars, stripVars, versionVars, onceVars>>

\* &pluginpb.CodeGeneratorResponse{}
EmptyResponse ==
    [File |-> <<>>, Error |-> "", SupportedFeatures |-> 0,
     MinimumEdition |-> 0, MaximumEdition |-> 0]

NoReturn == [called |-> FALSE, err |-> "", present |-> FALSE]
Returned(err) == [called |-> TRUE, err |-> err, present |-> err = ""]

\* A call of a method other than ToCodeGeneratorResponse.
OtherCall == [finalize |-> FALSE, input |-> <<>>]
Finalize(files) == [finalize |-> TRUE, input |-> files]

\* NewResponseWriter, with or without ResponseWriterWithLenientValidation.
InitWriter ==
    /\ codeGeneratorResponse = EmptyResponse
    /\ written = FALSE
    /\ lenient \in BOOLEAN
    /\ warnings = <<>>
    /\ ret = NoReturn
    /\ lastCall = OtherCall
    /\ added = 0
    /\ calls = 0
    /\ lastNonEmptyError = ""
    /\ lastSetError = ""
    /\ unknownFeaturesSet = FALSE

\* No CodeGeneratorRequest was received.
NoRequest == [called |-> FALSE, err |-> NoError, present |-> FALSE,
              sourceRetentionOptions |-> FALSE]
NoAccess == [op |-> "", err |-> "", refs |-> <<>>]

IdleRequest ==
    /\ codeGeneratorRequest = NilCodeGeneratorRequest
    /\ request = NoRequest
    /\ accessed = NoAccess

\* validateAndNormalizePath was not called.
NoPass == [called |-> FALSE, err |-> "", path |-> <<>>]

IdlePath ==
    /\ givenPath = <<>>
    /\ firstPass = NoPass
    /\ secondPass = NoPass

\* A strict responseWriter nothing is called on.
IdleWriter == InitWriter /\ ~lenient

\* run has not returned.
NotReturned == [returned |-> FALSE, err |-> ""]

\* run is not called.
IdleRun ==
    /\ args = <<>>
    /\ version = ""
    /\ pc = "idle"
    /\ stdinRead = "no"
    /\ unmarshalled = "no"
    /\ handled = 0
    /\ handlerRet = "none"
    /\ stdout = <<>>
    /\ runRet = NotReturned

\* A descriptor with its reference n.
DescriptorProto(n, kind, options, children) ==
    [ref |-> Ref(n), kind |-> kind, name |-> n, options |-> options,
     children |-> children]

\* A *descriptorpb.FileDescriptorProto.
FileDescriptor(n, options, children, sourceCodeInfo) ==
    [ref |-> Ref(n), kind |-> "file", name |-> n, options |-> options,
     children |-> children, SourceCodeInfo |-> sourceCodeInfo]

NoFile == FileDescriptor(0, NilOptions, <<<<>>, <<>>, <<>>, <<>>>>,
                         NilSourceCodeInfo)
NotStripped == [called |-> FALSE, file |-> NoFile]

\* StripSourceRetentionOptions is not called.
IdleStrip ==
    /\ givenFile = NoFile
    /\ strippedFile = NotStripped

\* String is not called.
NoString == [called |-> FALSE, value |-> <<>>]

IdleVersion ==
    /\ compilerVersion = NilCompilerVersion
    /\ versionString = NoString

\* The goroutines.
Threads == 1..MaxThreads

\* The value the n-th call of f returns, and the zero value of T.
ResultOfCall(n) == <<n>>
ZeroResult == <<>>

\* The function onceValue returned is not called.
InitOnce ==
    /\ onceThreads = [t \in Threads |-> [pc |-> "idle", calls |-> 0]]
    /\ once = [done |-> FALSE, m |-> 0]
    /\ onceValueVars = [valid |-> FALSE, result |-> ZeroResult, computations |-> 0]
    /\ onceReturned = [t \in Threads |-> <<>>]

IdleOnce == InitOnce

\* The goroutines that call one responseWriter.
Goroutines == 1..MaxGoroutines

\* A goroutine that is in no call.
IdleGoroutine ==
    [pc |-> "idle", files |-> <<>>, minimumEdition |-> 0, maximumEdition |-> 0,
     readFile |-> <<>>, readSupportedFeatures |-> 0]

\* A sync.RWMutex nobody holds.
Unlocked == [writer |-> 0, readers |-> {}]

\* No goroutine calls the responseWriter.
IdleLock ==
    /\ lock = Unlocked
    /\ goroutines = [g \in Goroutines |-> IdleGoroutine]
    /\ completed = <<>>
    /\ finalized = <<>>
    /\ started = 0

\* A responseWriter of its own, with no request.
Init == InitWriter /\ IdleRequest /\ IdlePath /\ IdleRun /\ IdleStrip /\ IdleVersion /\ IdleOnce /\ IdleLock

(***************************************************************************)
(* The inputs of the calls.                                                *)
(***************************************************************************)
\* File names: "", "a", "b", "./a", "/a".
NameEmpty == <<>>
NameA == <<"a">>
NameB == <<"b">>
NameDotA == <<".", "/", "a">>
NameAbsA == <<"/", "a">>

\* The shape of a record: its name, its insertion point, and whether it has
\* content.  The content of the n-th record passed to the writer is the
\* one-token string <<n>>, so every content is told from every other.
Shape(name, insertionPoint, hasContent) ==
    [name |-> name, insertionPoint |-> insertionPoint, hasContent |-> hasContent]

FileOfShape(shape, n) ==
    ResponseFile(shape.name, shape.insertionPoint,
                 IF shape.hasContent THEN ProtoString(<<n>>) ELSE NilString)

FilesOfShapes(shapes, n) == [k \in 1..Len(shapes) |-> FileOfShape(shapes[k], n + k)]

(***************************************************************************)
(* The mutating methods.                                                   *)
(***************************************************************************)
appendFiles(files) ==
    /\ added + Len(files) <= MaxFiles
    /\ codeGeneratorResponse' =
           [codeGeneratorResponse EXCEPT !.File = codeGeneratorResponse.File \o files]
    /\ added' = added + Len(files)
    /\ UNCHANGED <<written, lenient, warnings, ret, calls, lastNonEmptyError, lastSetError, unknownFeaturesSet>>

AddCodeGeneratorResponseFiles(shapes) ==
    /\ appendFiles(FilesOfShapes(shapes, added))
    /\ lastCall' = OtherCall

AddFile(name) ==
    /\ appendFiles(FilesOfShapes(<<Shape(name, "", TRUE)>>, added))
    /\ lastCall' = OtherCall

\* StoredError that ignores an empty message.
StoredErrorIgnoringEmpty(old, message) == IF message = "" THEN old ELSE message

\* The value SetError stores for a message, over the value old.
StoredError(old, message) == IF message = "" THEN "" ELSE message

SetError(message) ==
    /\ codeGeneratorResponse' =
           [codeGeneratorResponse EXCEPT !.Error = StoredError(@, message)]
    /\ lastNonEmptyError' = IF message # "" THEN message ELSE lastNonEmptyError
    /\ lastSetError' = message
    /\ lastCall' = OtherCall
    /\ UNCHANGED <<written, lenient, warnings, ret, added, calls, unknownFeaturesSet>>

setSupportedFeatures(supportedFeatures) ==
    codeGeneratorResponse' =
        [codeGeneratorResponse EXCEPT !.SupportedFeatures = supportedFeatures]

addSupportedFeatures(response, supportedFeatures) ==
    [response EXCEPT !.SupportedFeatures = Or(@, supportedFeatures)]

setMinimumEdition(response, minimumEdition) ==
    [response EXCEPT !.MinimumEdition = minimumEdition]

setMaximumEdition(response, maximumEdition) ==
    [response EXCEPT !.MaximumEdition = maximumEdition]

SetFeatureProto3Optional ==
    /\ codeGeneratorResponse' =
           addSupportedFeatures(codeGeneratorResponse, FEATURE_PROTO3_OPTIONAL)
    /\ lastCall' = OtherCall
    /\ UNCHANGED <<written, lenient, warnings, ret, added, calls, lastNonEmptyError, lastSetError, unknownFeaturesSet>>

SetFeatureSupportsEditions(minimumEdition, maximumEdition) ==
    /\ codeGeneratorResponse' =
           setMaximumEdition(
               setMinimumEdition(
                   addSupportedFeatures(codeGeneratorResponse, FEATURE_SUPPORTS_EDITIONS),
                   minimumEdition),
               maximumEdition)
    /\ lastCall' = OtherCall
    /\ UNCHANGED <<written, lenient, warnings, ret, added, calls, lastNonEmptyError, lastSetError, unknownFeaturesSet>>

SetSupportedFeatures(supportedFeatures) ==
    /\ setSupportedFeatures(supportedFeatures)
    /\ unknownFeaturesSet' = (unknownFeaturesSet \/ UnknownFeatures(supportedFeatures))
    /\ lastCall' = OtherCall
    /\ UNCHANGED <<written, lenient, warnings, ret, added, calls, lastNonEmptyError, lastSetError>>

SetMinimumEdition(minimumEdition) ==
    /\ codeGeneratorResponse' = setMinimumEdition(codeGeneratorResponse, minimumEdition)
    /\ lastCall' = OtherCall
    /\ UNCHANGED <<written, lenient, warnings, ret, added, calls, lastNonEmptyError, lastSetError, unknownFeaturesSet>>

SetMaximumEdition(maximumEdition) ==
    /\ codeGeneratorResponse' = setMaximumEdition(codeGeneratorResponse, maximumEdition)
    /\ lastCall' = OtherCall
    /\ UNCHANGED <<written, lenient, warnings, ret, added, calls, lastNonEmptyError, lastSetError, unknownFeaturesSet>>

(***************************************************************************)
(* ToCodeGeneratorResponse.  The response it returns is the writer's own   *)
(* r.codeGeneratorResponse, so ret records only whether one was returned.  *)
(***************************************************************************)
\* The effect of the validation, whose outcome is v, on the writer and on
\* what the call returns.
validated(v) ==
    /\ codeGeneratorResponse' = v.response
    /\ warnings' = warnings \o v.warnings
    /\ ret' = Returned(v.err)

\* Reused that never holds.
ReusedNever(w) == FALSE

\* The test that makes a call fail as a reuse of the writer.
Reused(w) == w

ToCodeGeneratorResponse ==
    /\ calls < MaxFinalize
    /\ calls' = calls + 1
    /\ lastCall' = Finalize(codeGeneratorResponse.File)
    /\ IF Reused(written)
       THEN /\ ret' = Returned("ResponseWriter cannot be reused")
            /\ UNCHANGED <<codeGeneratorResponse, written, warnings>>
       ELSE /\ written' = TRUE
            /\ validated(validateAndNormalizeCodeGeneratorResponse(codeGeneratorResponse,
                                                                   lenient))
    /\ UNCHANGED <<lenient, added, lastNonEmptyError, lastSetError, unknownFeaturesSet>>

(***************************************************************************)
(* The calls on the Request.                                               *)
(***************************************************************************)
\* NewRequest(codeGeneratorRequest).
NewRequest ==
    /\ ~request.called
    /\ request' = newRequest(codeGeneratorRequest)
    /\ UNCHANGED <<codeGeneratorRequest, accessed>>

\* request.WithSourceRetentionOptions(), the caller going on with the copy.
WithSourceRetentionOptions ==
    /\ request.present /\ accessed.op = ""
    /\ accessed' = [op |-> "WithSourceRetentionOptions",
                    err |-> validateSourceFileDescriptorsPresent(codeGeneratorRequest),
                    refs |-> <<>>]
    /\ request' = [request EXCEPT !.sourceRetentionOptions =
                       @ \/ validateSourceFileDescriptorsPresent(codeGeneratorRequest) = ""]
    /\ UNCHANGED codeGeneratorRequest

GenerateFileDescriptorProtosCall ==
    /\ request.present
    /\ accessed' = [op |-> "GenerateFileDescriptorProtos", err |-> "",
                    refs |-> GenerateFileDescriptorProtos(
                                 codeGeneratorRequest, request.sourceRetentionOptions)]
    /\ UNCHANGED <<codeGeneratorRequest, request>>

AllFileDescriptorProtosCall ==
    /\ request.present
    /\ accessed' = [op |-> "AllFileDescriptorProtos", err |-> "",
                    refs |-> AllFileDescriptorProtos(
                                 codeGeneratorRequest, request.sourceRetentionOptions)]
    /\ UNCHANGED <<codeGeneratorRequest, request>>

(***************************************************************************)
(* The calls of validateAndNormalizePath.                                  *)
(***************************************************************************)
Passed(n) == [called |-> TRUE, err |-> n.err, path |-> n.path]

\* validateAndNormalizePath(fieldName, givenPath).
Normalize ==
    /\ ~firstPass.called
    /\ firstPass' = Passed(validateAndNormalizePath(givenPath))
    /\ UNCHANGED <<givenPath, secondPass>>

\* validateAndNormalizePath(fieldName, normalizedPath), for the path the
\* first call returned.
NormalizeAgain ==
    /\ firstPass.called /\ firstPass.err = "" /\ ~secondPass.called
    /\ secondPass' = Passed(validateAndNormalizePath(firstPass.path))
    /\ UNCHANGED <<givenPath, firstPass>>

(***************************************************************************)
(* run, step by step.  The handler is the calls it makes on the            *)
(* responseWriter between the steps Handle and HandlerReturn.              *)
(***************************************************************************)
RunReturned(err) == [returned |-> TRUE, err |-> err]

UnknownArgumentsError == "unknown arguments"

\* The message of an error of the request validation.
ErrorString(err) == "CodeGeneratorRequest: " \o err.field \o ": " \o err.what

\* switch len(env.Args), case 0.
RunNoArgs ==
    /\ pc = "start" /\ Len(args) = 0
    /\ pc' = "read"
    /\ UNCHANGED <<args, version, stdinRead, unmarshalled, handled, handlerRet,
                   stdout, runRet>>

\* Whether run takes the arguments as the version flag.
IsVersionFlagAlways(a, v) == Len(a) = 1 /\ a[1] = "--version"

IsVersionFlag(a, v) == Len(a) = 1 /\ v # "" /\ a[1] = "--version"

\* case 1 with the version flag: fmt.Fprintln(env.Stdout, opts.version), which
\* may fail.
RunVersion ==
    /\ pc = "start" /\ IsVersionFlag(args, version)
    /\ stdout' = Append(stdout, version \o "\n")
    /\ \E err \in {"", "write error"} : runRet' = RunReturned(err)
    /\ pc' = "done"
    /\ UNCHANGED <<args, version, stdinRead, unmarshalled, handled, handlerRet>>

\* case 1 otherwise, and default.
RunUnknownArguments ==
    /\ pc = "start" /\ Len(args) > 0 /\ ~IsVersionFlag(args, version)
    /\ runRet' = RunReturned(UnknownArgumentsError)
    /\ pc' = "done"
    /\ UNCHANGED <<args, version, stdinRead, unmarshalled, handled, handlerRet, stdout>>

\* io.ReadAll(env.Stdin), which may fail.
RunReadAll ==
    /\ pc = "read"
    /\ \/ stdinRead' = "ok" /\ pc' = "unmarshal" /\ UNCHANGED runRet
       \/ stdinRead' = "failed" /\ pc' = "done" /\ runRet' = RunReturned("read error")
    /\ UNCHANGED <<args, version, unmarshalled, handled, handlerRet, stdout>>

\* proto.Unmarshal(input, codeGeneratorRequest), which may fail.
RunUnmarshal(input) ==
    /\ pc = "unmarshal"
    /\ \/ /\ unmarshalled' = "ok" /\ pc' = "newRequest"
          /\ codeGeneratorRequest' = input
          /\ UNCHANGED runRet
       \/ /\ unmarshalled' = "failed" /\ pc' = "done"
          /\ runRet' = RunReturned("unmarshal error")
          /\ UNCHANGED codeGeneratorRequest
    /\ UNCHANGED <<args, version, stdinRead, handled, handlerRet, stdout>>
    /\ UNCHANGED <<request, accessed>>

\* run that goes on with a request that was rejected.
RunRequestRejectedNever(r) == FALSE

RunRequestRejected(r) == r.err # NoError

\* NewRequest(codeGeneratorRequest), then NewResponseWriter and the call of
\* handler.Handle.
RunNewRequest ==
    /\ pc = "newRequest"
    /\ NewRequest
    /\ IF RunRequestRejected(request')
       THEN /\ pc' = "done"
            /\ runRet' = RunReturned(ErrorString(request'.err))
            /\ UNCHANGED handled
       ELSE /\ pc' = "handling"
            /\ handled' = handled + 1
            /\ UNCHANGED runRet
    /\ UNCHANGED <<args, version, stdinRead, unmarshalled, handlerRet, stdout>>

\* A call the handler makes on the responseWriter.
Handling(call) ==
    /\ pc = "handling"
    /\ call
    /\ UNCHANGED exceptWriter

\* handler.Handle returns, nil or an error.
HandlerReturn ==
    /\ pc = "handling"
    /\ \/ handlerRet' = "nil" /\ pc' = "finalize" /\ UNCHANGED runRet
       \/ handlerRet' = "error" /\ pc' = "done" /\ runRet' = RunReturned("handler error")
    /\ UNCHANGED <<args, version, stdinRead, unmarshalled, handled, stdout>>

\* responseWriter.ToCodeGeneratorResponse().
RunToCodeGeneratorResponse ==
    /\ pc = "finalize"
    /\ ToCodeGeneratorResponse
    /\ IF ret'.err # ""
       THEN pc' = "done" /\ runRet' = RunReturned(ret'.err)
       ELSE pc' = "marshal" /\ UNCHANGED runRet
    /\ UNCHANGED <<args, version, stdinRead, unmarshalled, handled, handlerRet, stdout>>

\* proto.Marshal(codeGeneratorResponse), which may fail.
RunMarshal ==
    /\ pc = "marshal"
    /\ \/ pc' = "write" /\ UNCHANGED runRet
       \/ pc' = "done" /\ runRet' = RunReturned("marshal error")
    /\ UNCHANGED <<args, version, stdinRead, unmarshalled, handled, handlerRet, stdout>>

\* env.Stdout.Write(data), which may fail.
RunWrite ==
    /\ pc = "write"
    /\ stdout' = Append(stdout, "CodeGeneratorResponse")
    /\ \E err \in {"", "write error"} : runRet' = RunReturned(err)
    /\ pc' = "done"
    /\ UNCHANGED <<args, version, stdinRead, unmarshalled, handled, handlerRet>>

(***************************************************************************)
(* Specifications.  SpecFiles explores the file lists (the calls that add  *)
(* records, then ToCodeGeneratorResponse); SpecMeta explores the error     *)
(* message, the feature mask and the editions over a few file lists.       *)
(***************************************************************************)
FileNames == {NameEmpty, NameA, NameB, NameDotA, NameAbsA}
InsertionPoints == {"", "p"}
\* The records passed to AddCodeGeneratorResponseFiles: every record named "a",
\* named records with content, the nameless records, and a record with an
\* invalid name.
Shapes ==
    {Shape(NameA, ip, c) : ip \in InsertionPoints, c \in BOOLEAN}
    \cup {Shape(n, ip, TRUE) : n \in {NameB, NameDotA}, ip \in InsertionPoints}
    \cup {Shape(NameEmpty, "", c) : c \in BOOLEAN}
    \cup {Shape(NameEmpty, "p", TRUE), Shape(NameAbsA, "", TRUE)}
\* A named record followed by its continuation.
Continued == {<<Shape(n, "", TRUE), Shape(NameEmpty, "", c)>> : n \in {NameA, NameB}, c \in BOOLEAN}

NextFiles ==
    \/ \E name \in FileNames : AddFile(name) /\ UNCHANGED exceptWriter
    \/ \E shape \in Shapes :
           AddCodeGeneratorResponseFiles(<<shape>>) /\ UNCHANGED exceptWriter
    \/ \E shapes \in Continued :
           AddCodeGeneratorResponseFiles(shapes) /\ UNCHANGED exceptWriter
    \/ ToCodeGeneratorResponse /\ UNCHANGED exceptWriter

SpecFiles == Init /\ [][NextFiles]_vars

MetaNames == {NameA, NameDotA}
Messages == {"", "x", "y"}
Features == {0, 1, 2, 3, 4, 6}
Editions == {0, 3, 5}

NextMeta ==
    \/ \E name \in MetaNames : AddFile(name) /\ UNCHANGED exceptWriter
    \/ \E message \in Messages : SetError(message) /\ UNCHANGED exceptWriter
    \/ SetFeatureProto3Optional /\ UNCHANGED exceptWriter
    \/ \E min \in Editions, max \in Editions :
           SetFeatureSupportsEditions(min, max) /\ UNCHANGED exceptWriter
    \/ \E f \in Features : SetSupportedFeatures(f) /\ UNCHANGED exceptWriter
    \/ \E min \in Editions : SetMinimumEdition(min) /\ UNCHANGED exceptWriter
    \/ \E max \in Editions : SetMaximumEdition(max) /\ UNCHANGED exceptWriter
    \/ ToCodeGeneratorResponse /\ UNCHANGED exceptWriter

SpecMeta == Init /\ [][NextMeta]_vars

(***************************************************************************)
(* SpecRequest explores the CodeGeneratorRequests: newRequest on each of   *)
(* them, then the accessors of the Request it returns.                     *)
(***************************************************************************)
PathA == <<"a", ".", "p", "r", "o", "t", "o">>
PathB == <<"b", ".", "p", "r", "o", "t", "o">>
PathC == <<"c", ".", "p", "r", "o", "t", "o">>
PathDotA == <<".", "/">> \o PathA

\* The values of file_to_generate: two paths and a path with no extension.
GeneratePaths == {PathA, PathB, NameA}
\* The values of proto_file: a.proto, b.proto that imports a.proto, b.proto
\* that imports a file the request does not hold, an unnormalized name, and
\* a dependency given twice.
ProtoFiles ==
    {FileDescriptorProto(PathA, <<>>), FileDescriptorProto(PathB, <<PathA>>),
     FileDescriptorProto(PathB, <<PathC>>), FileDescriptorProto(PathDotA, <<>>),
     FileDescriptorProto(PathA, <<PathB, PathB>>)}
\* The values of source_file_descriptors: the two files, b.proto with a
\* dependency that has no extension, and nil.
SourceFileDescriptors ==
    {FileDescriptorProto(PathA, <<>>), FileDescriptorProto(PathB, <<PathA>>),
     FileDescriptorProto(PathB, <<NameA>>), NilFileDescriptorProto}
Versions == {NilVersion, Version(3, 0, 0), Version(3, -1, -1)}

\* A request of at most MaxRequestSize paths and descriptors.
SomeRequest ==
    \E i \in 0..MaxRequestSize :
        \E j \in 0..(MaxRequestSize - i) :
            \E k \in 0..(MaxRequestSize - i - j) :
                \E g \in [1..i -> GeneratePaths], p \in [1..j -> ProtoFiles],
                   s \in [1..k -> SourceFileDescriptors], v \in Versions :
                    codeGeneratorRequest = CodeGeneratorRequest(g, p, s, v)

InitRequest ==
    /\ IdleWriter /\ IdlePath /\ IdleRun /\ IdleStrip /\ IdleVersion /\ IdleOnce /\ IdleLock
    /\ \/ codeGeneratorRequest = NilCodeGeneratorRequest
       \/ SomeRequest
    /\ request = NoRequest
    /\ accessed = NoAccess

NextRequest ==
    \/ NewRequest /\ UNCHANGED exceptRequest
    \/ WithSourceRetentionOptions /\ UNCHANGED exceptRequest
    \/ GenerateFileDescriptorProtosCall /\ UNCHANGED exceptRequest
    \/ AllFileDescriptorProtosCall /\ UNCHANGED exceptRequest

SpecRequest == InitRequest /\ [][NextRequest]_vars

(***************************************************************************)
(* SpecPath explores validateAndNormalizePath over the paths of at most    *)
(* MaxPathLen characters.                                                  *)
(***************************************************************************)
PathChars == {"a", "b", ".", "/"}

InitPath ==
    /\ IdleWriter /\ IdleRequest /\ IdleRun /\ IdleStrip /\ IdleVersion /\ IdleOnce /\ IdleLock
    /\ \E n \in 0..MaxPathLen : givenPath \in [1..n -> PathChars]
    /\ firstPass = NoPass
    /\ secondPass = NoPass

NextPath ==
    \/ Normalize /\ UNCHANGED exceptPath
    \/ NormalizeAgain /\ UNCHANGED exceptPath

SpecPath == InitPath /\ [][NextPath]_vars

(***************************************************************************)
(* SpecRun explores run: the arguments, the version option, the failures   *)
(* of the reads and writes, two inputs, and the handlers that add files    *)
(* and may call ToCodeGeneratorResponse themselves.                        *)
(***************************************************************************)
Arguments == {"--version", "--foo"}
VersionOptions == {"", "0.0.1"}
\* What is unmarshalled: a request for a.proto, and the empty request.
Inputs ==
    {CodeGeneratorRequest(<<PathA>>,
                          <<FileDescriptorProto(PathA, <<>>),
                            FileDescriptorProto(PathB, <<PathA>>)>>,
                          <<>>, NilVersion),
     CodeGeneratorRequest(<<>>, <<>>, <<>>, NilVersion)}

InitRun ==
    /\ InitWriter /\ IdleRequest /\ IdlePath /\ IdleStrip /\ IdleVersion /\ IdleOnce /\ IdleLock
    /\ \E n \in 0..MaxArgs : args \in [1..n -> Arguments]
    /\ version \in VersionOptions
    /\ pc = "start"
    /\ stdinRead = "no"
    /\ unmarshalled = "no"
    /\ handled = 0
    /\ handlerRet = "none"
    /\ stdout = <<>>
    /\ runRet = NotReturned

NextRun ==
    \/ RunNoArgs /\ UNCHANGED <<writerVars, requestVars, pathVars, stripVars, versionVars, onceVars, lockVars>>
    \/ RunVersion /\ UNCHANGED <<writerVars, requestVars, pathVars, stripVars, versionVars, onceVars, lockVars>>
    \/ RunUnknownArguments /\ UNCHANGED <<writerVars, requestVars, pathVars, stripVars, versionVars, onceVars, lockVars>>
    \/ RunReadAll /\ UNCHANGED <<writerVars, requestVars, pathVars, stripVars, versionVars, onceVars, lockVars>>
    \/ \E input \in Inputs : RunUnmarshal(input) /\ UNCHANGED <<writerVars, pathVars, stripVars, versionVars, onceVars, lockVars>>
    \/ RunNewRequest /\ UNCHANGED <<writerVars, pathVars, stripVars, versionVars, onceVars, lockVars>>
    \/ \E name \in MetaNames : Handling(AddFile(name))
    \/ Handling(calls < MaxFinalize - 1 /\ ToCodeGeneratorResponse)
    \/ HandlerReturn /\ UNCHANGED <<writerVars, requestVars, pathVars, stripVars, versionVars, onceVars, lockVars>>
    \/ RunToCodeGeneratorResponse /\ UNCHANGED <<requestVars, pathVars, stripVars, versionVars, onceVars, lockVars>>
    \/ RunMarshal /\ UNCHANGED <<writerVars, requestVars, pathVars, stripVars, versionVars, onceVars, lockVars>>
    \/ RunWrite /\ UNCHANGED <<writerVars, requestVars, pathVars, stripVars, versionVars, onceVars, lockVars>>

SpecRun == InitRun /\ [][NextRun]_vars

(***************************************************************************)
(* SpecStrip explores StripSourceRetentionOptions over one file with a     *)
(* descriptor of every kind, where at most MaxOptions descriptors have     *)
(* options, with and without source code info.                             *)
(***************************************************************************)
\* Options with no set field, with a field to keep, with a field of source
\* retention, and with both.
OptionChoices == {"empty", "keep", "source", "mixed"}

OptionsOf(n, choice) ==
    CASE choice = "nil" -> NilOptions
      [] choice = "empty" -> Options(n, {})
      [] choice = "keep" -> Options(n, {OptionField(1, FALSE, n)})
      [] choice = "source" -> Options(n, {OptionField(2, TRUE, n)})
      [] choice = "mixed" ->
           Options(n, {OptionField(1, FALSE, n), OptionField(2, TRUE, n)})

Descriptors == 1..16

Leaf(n, kind, o) == DescriptorProto(n, kind, OptionsOf(n, o[n]), <<>>)

EnumOf(n, o) ==
    DescriptorProto(n, "enum", OptionsOf(n, o[n]),
                    <<<<Leaf(n + 1, "enumValue", o)>>>>)

\* message 2 { field 3; oneof 4; extension range 5; message 6; enum 7
\* { value 8 }; extension 9 }, message 10 { field 11 }, enum 12 { value 13 },
\* extension 14, service 15 { method 16 }
FileOf(o, sourceCodeInfo) ==
    FileDescriptor(1, OptionsOf(1, o[1]),
        <<<<DescriptorProto(2, "message", OptionsOf(2, o[2]),
                <<<<Leaf(3, "field", o)>>,
                  <<Leaf(4, "oneof", o)>>,
                  <<Leaf(5, "extensionRange", o)>>,
                  <<DescriptorProto(6, "message", OptionsOf(6, o[6]),
                        <<<<>>, <<>>, <<>>, <<>>, <<>>, <<>>>>)>>,
                  <<EnumOf(7, o)>>,
                  <<Leaf(9, "field", o)>>>>),
            DescriptorProto(10, "message", OptionsOf(10, o[10]),
                <<<<Leaf(11, "field", o)>>, <<>>, <<>>, <<>>, <<>>, <<>>>>)>>,
          <<EnumOf(12, o)>>,
          <<Leaf(14, "field", o)>>,
          <<DescriptorProto(15, "service", OptionsOf(15, o[15]),
                <<<<Leaf(16, "method", o)>>>>)>>>>,
        sourceCodeInfo)

\* The paths of the locations: of the file, of options, of fields of
\* options, of what is below one, and of what is no option.
Locations ==
    <<<<>>, <<8>>, <<8, 1>>, <<8, 2>>, <<8, 2, 0>>, <<4, 0>>, <<4, 0, 1>>,
      <<4, 0, 7>>, <<4, 0, 7, 2>>, <<4, 0, 2, 0, 1>>, <<4, 0, 2, 0, 8>>,
      <<4, 0, 2, 0, 8, 2>>, <<4, 0, 8, 0, 2>>, <<4, 0, 5, 0, 3, 2>>,
      <<4, 0, 3, 0, 7, 1>>, <<4, 0, 4, 0, 2, 0, 3, 2>>, <<4, 0, 6, 0, 8, 2>>,
      <<4, 1, 2, 0, 8, 2>>, <<5, 0, 3>>, <<5, 0, 2, 0, 3, 2>>, <<7, 0, 8, 2>>,
      <<6, 0, 3, 2>>, <<6, 0, 2, 0, 4, 2>>, <<6, 0, 2, 0, 4, 1>>>>

SourceCodeInfos ==
    {NilSourceCodeInfo, SourceCodeInfo(17, <<>>), SourceCodeInfo(17, Locations)}

InitStrip ==
    /\ IdleWriter /\ IdleRequest /\ IdlePath /\ IdleRun /\ IdleVersion /\ IdleOnce /\ IdleLock
    /\ \E withOptions \in SUBSET Descriptors :
         /\ Cardinality(withOptions) <= MaxOptions
         /\ \E choice \in [withOptions -> OptionChoices] :
              \E sourceCodeInfo \in SourceCodeInfos :
                givenFile =
                    FileOf([n \in Descriptors |->
                              IF n \in withOptions THEN choice[n] ELSE "nil"],
                           sourceCodeInfo)
    /\ strippedFile = NotStripped

Strip ==
    /\ ~strippedFile.called
    /\ strippedFile' =
           [called |-> TRUE, file |-> StripSourceRetentionOptions(givenFile)]
    /\ UNCHANGED givenFile

NextStrip == Strip /\ UNCHANGED exceptStrip

SpecStrip == InitStrip /\ [][NextStrip]_vars

(***************************************************************************)
(* SpecVersion explores CompilerVersion.String over nil and the versions   *)
(* with numbers up to MaxVersionNumber, with and without a suffix.         *)
(***************************************************************************)
Suffixes == {<<>>, <<"r", "c", "1">>}

InitVersion ==
    /\ IdleWriter /\ IdleRequest /\ IdlePath /\ IdleRun /\ IdleStrip /\ IdleOnce /\ IdleLock
    /\ \/ compilerVersion = NilCompilerVersion
       \/ \E major, minor, patch \in 0..MaxVersionNumber :
            \E suffix \in Suffixes :
              compilerVersion = CompilerVersion(major, minor, patch, suffix)
    /\ versionString = NoString

StringCall ==
    /\ ~versionString.called
    /\ versionString' = [called |-> TRUE, value |-> String(compilerVersion)]
    /\ UNCHANGED compilerVersion

NextVersion == StringCall /\ UNCHANGED exceptVersion

SpecVersion == InitVersion /\ [][NextVersion]_vars

(***************************************************************************)
(* SpecOnce explores the function onceValue returns, called by MaxThreads  *)
(* goroutines, MaxAccessorCalls times each.  once.Do(g) is sync.Once.Do:   *)
(* the load of done, and for done = 0 the mutex, the second look at done,  *)
(* g, the store of done and the unlock.                                    *)
(***************************************************************************)
At(t, label) == onceThreads[t].pc = label
Goto(t, label) == onceThreads' = [onceThreads EXCEPT ![t].pc = label]

\* The function is called: once.Do(g) begins.
OnceCall(t) ==
    /\ At(t, "idle")
    /\ onceThreads[t].calls < MaxAccessorCalls
    /\ Goto(t, "do")
    /\ UNCHANGED <<once, onceValueVars, onceReturned>>

\* Do: if o.done.Load() == 0 { o.doSlow(f) }
OnceDo(t) ==
    /\ At(t, "do")
    /\ Goto(t, IF once.done THEN "done" ELSE "lock")
    /\ UNCHANGED <<once, onceValueVars, onceReturned>>

\* doSlow: o.m.Lock()
OnceLock(t) ==
    /\ At(t, "lock")
    /\ once.m = 0
    /\ once' = [once EXCEPT !.m = t]
    /\ Goto(t, "locked")
    /\ UNCHANGED <<onceValueVars, onceReturned>>

\* doSlow: if o.done.Load() == 0
RunsOnceAlways(done) == TRUE

RunsOnce(done) == ~done

OnceDoSlow(t) ==
    /\ At(t, "locked")
    /\ Goto(t, IF RunsOnce(once.done) THEN "g" ELSE "unlock")
    /\ UNCHANGED <<once, onceValueVars, onceReturned>>

\* g: result = f(); f = nil; valid = true
OnceG(t) ==
    /\ At(t, "g")
    /\ onceValueVars' =
           [valid |-> TRUE,
            result |-> ResultOfCall(onceValueVars.computations + 1),
            computations |-> onceValueVars.computations + 1]
    /\ Goto(t, "store")
    /\ UNCHANGED <<once, onceReturned>>

\* doSlow: defer o.done.Store(1)
OnceStore(t) ==
    /\ At(t, "store")
    /\ once' = [once EXCEPT !.done = TRUE]
    /\ Goto(t, "unlock")
    /\ UNCHANGED <<onceValueVars, onceReturned>>

\* doSlow: defer o.m.Unlock()
OnceUnlock(t) ==
    /\ At(t, "unlock")
    /\ once' = [once EXCEPT !.m = 0]
    /\ Goto(t, "done")
    /\ UNCHANGED <<onceValueVars, onceReturned>>

\* if !valid { panic(p) }; return result
OnceReturn(t) ==
    /\ At(t, "done")
    /\ onceReturned' =
           [onceReturned EXCEPT ![t] =
               Append(@, IF onceValueVars.valid THEN onceValueVars.result
                         ELSE <<"panic">>)]
    /\ onceThreads' = [onceThreads EXCEPT ![t] =
                          [pc |-> "idle", calls |-> @.calls + 1]]
    /\ UNCHANGED <<once, onceValueVars>>

InitOnceValue ==
    /\ IdleWriter /\ IdleRequest /\ IdlePath /\ IdleRun /\ IdleStrip /\ IdleVersion /\ IdleLock
    /\ InitOnce

NextOnce ==
    \/ \E t \in Threads : OnceCall(t) /\ UNCHANGED exceptOnce
    \/ \E t \in Threads : OnceDo(t) /\ UNCHANGED exceptOnce
    \/ \E t \in Threads : OnceLock(t) /\ UNCHANGED exceptOnce
    \/ \E t \in Threads : OnceDoSlow(t) /\ UNCHANGED exceptOnce
    \/ \E t \in Threads : OnceG(t) /\ UNCHANGED exceptOnce
    \/ \E t \in Threads : OnceStore(t) /\ UNCHANGED exceptOnce
    \/ \E t \in Threads : OnceUnlock(t) /\ UNCHANGED exceptOnce
    \/ \E t \in Threads : OnceReturn(t) /\ UNCHANGED exceptOnce

SpecOnce == InitOnceValue /\ [][NextOnce]_vars

(***************************************************************************)
(* SpecLock explores one strict responseWriter called by MaxGoroutines     *)
(* goroutines, MaxCalls calls in all: AddFile, AddCodeGeneratorResponseFiles,*)
(* SetFeatureSupportsEditions and ToCodeGeneratorResponse.  r.lock is a    *)
(* sync.RWMutex: Lock waits until no goroutine holds it, RLock until no    *)
(* goroutine holds it for writing.  A call takes its first lock in the     *)
(* step that begins it; every read and write of a field under the lock is  *)
(* a step of its own where the call does both.  The names are canonical    *)
(* and the writer is strict, so that the validation writes no name.        *)
(***************************************************************************)
InCall(g, label) == goroutines[g].pc = label
Continue(g, label) == goroutines' = [goroutines EXCEPT ![g].pc = label]
Return(g) == goroutines' = [goroutines EXCEPT ![g] = IdleGoroutine]

\* CanLock for a lock that excludes nobody.
CanLockAlways(l) == TRUE

\* r.lock.Lock() returns.
CanLock(l) == l.writer = 0 /\ l.readers = {}
Lock(g) == [lock EXCEPT !.writer = g]
Unlock == [lock EXCEPT !.writer = 0]

\* r.lock.RLock() returns.
CanRLock(l) == l.writer = 0
RLock(g) == [lock EXCEPT !.readers = @ \cup {g}]
RUnlock(g) == [lock EXCEPT !.readers = @ \ {g}]

AddCall(g, files) ==
    [goroutine |-> g, op |-> "AddCodeGeneratorResponseFiles", files |-> files,
     minimumEdition |-> 0, maximumEdition |-> 0]
EditionsCall(g, minimumEdition, maximumEdition) ==
    [goroutine |-> g, op |-> "SetFeatureSupportsEditions", files |-> <<>>,
     minimumEdition |-> minimumEdition, maximumEdition |-> maximumEdition]

\* What the steps of the goroutines leave alone in the writer.
writerRest == <<lenient, ret, lastCall, added, calls, lastNonEmptyError,
                lastSetError, unknownFeaturesSet>>

\* AddCodeGeneratorResponseFiles(files...): r.lock.Lock().  The n-th call
\* passes the records 2n-1 and 2n.
LockedAddCodeGeneratorResponseFiles(g, shapes) ==
    /\ InCall(g, "idle") /\ started < MaxCalls
    /\ CanLock(lock)
    /\ lock' = Lock(g)
    /\ started' = started + 1
    /\ goroutines' = [goroutines EXCEPT ![g].pc = "GetFile",
                                        ![g].files = FilesOfShapes(shapes, 2 * started)]
    /\ UNCHANGED <<codeGeneratorResponse, written, warnings, completed, finalized>>

\* AddFile(name, content): AddCodeGeneratorResponseFiles of one record.
LockedAddFile(g, name) ==
    LockedAddCodeGeneratorResponseFiles(g, <<Shape(name, "", TRUE)>>)

\* r.codeGeneratorResponse.GetFile()
GetFileStep(g) ==
    /\ InCall(g, "GetFile")
    /\ goroutines' = [goroutines EXCEPT ![g].pc = "append",
                                        ![g].readFile = codeGeneratorResponse.File]
    /\ UNCHANGED <<codeGeneratorResponse, written, warnings, lock, completed,
                   finalized, started>>

\* r.codeGeneratorResponse.File = append(..., files...), and the deferred
\* r.lock.Unlock().
AppendStep(g) ==
    /\ InCall(g, "append")
    /\ codeGeneratorResponse' =
           [codeGeneratorResponse EXCEPT
               !.File = goroutines[g].readFile \o goroutines[g].files]
    /\ lock' = Unlock
    /\ completed' = Append(completed, AddCall(g, goroutines[g].files))
    /\ Return(g)
    /\ UNCHANGED <<written, warnings, finalized, started>>

\* SetFeatureSupportsEditions(minimumEdition, maximumEdition): the
\* r.lock.Lock() of addSupportedFeatures.
LockedSetFeatureSupportsEditions(g, minimumEdition, maximumEdition) ==
    /\ InCall(g, "idle") /\ started < MaxCalls
    /\ CanLock(lock)
    /\ lock' = Lock(g)
    /\ started' = started + 1
    /\ goroutines' = [goroutines EXCEPT ![g].pc = "GetSupportedFeatures",
                                        ![g].minimumEdition = minimumEdition,
                                        ![g].maximumEdition = maximumEdition]
    /\ UNCHANGED <<codeGeneratorResponse, written, warnings, completed, finalized>>

\* r.codeGeneratorResponse.GetSupportedFeatures()
GetSupportedFeaturesStep(g) ==
    /\ InCall(g, "GetSupportedFeatures")
    /\ goroutines' =
           [goroutines EXCEPT ![g].pc = "addSupportedFeatures",
                              ![g].readSupportedFeatures =
                                  codeGeneratorResponse.SupportedFeatures]
    /\ UNCHANGED <<codeGeneratorResponse, written, warnings, lock, completed,
                   finalized, started>>

\* r.codeGeneratorResponse.SupportedFeatures = proto.Uint64(... | ...), and
\* the deferred r.lock.Unlock() of addSupportedFeatures.
AddSupportedFeaturesStep(g) ==
    /\ InCall(g, "addSupportedFeatures")
    /\ codeGeneratorResponse' =
           [codeGeneratorResponse EXCEPT
               !.SupportedFeatures =
                   Or(goroutines[g].readSupportedFeatures, FEATURE_SUPPORTS_EDITIONS)]
    /\ lock' = Unlock
    /\ Continue(g, "SetMinimumEdition")
    /\ UNCHANGED <<written, warnings, completed, finalized, started>>

\* r.SetMinimumEdition(int32(minimumEdition)), from Lock to Unlock.
SetMinimumEditionStep(g) ==
    /\ InCall(g, "SetMinimumEdition")
    /\ CanLock(lock)
    /\ codeGeneratorResponse' =
           setMinimumEdition(codeGeneratorResponse, goroutines[g].minimumEdition)
    /\ Continue(g, "SetMaximumEdition")
    /\ UNCHANGED <<written, warnings, lock, completed, finalized, started>>

\* r.SetMaximumEdition(int32(maximumEdition)), from Lock to Unlock, and the
\* return of SetFeatureSupportsEditions.
SetMaximumEditionStep(g) ==
    /\ InCall(g, "SetMaximumEdition")
    /\ CanLock(lock)
    /\ codeGeneratorResponse' =
           setMaximumEdition(codeGeneratorResponse, goroutines[g].maximumEdition)
    /\ completed' = Append(completed,
                           EditionsCall(g, goroutines[g].minimumEdition,
                                        goroutines[g].maximumEdition))
    /\ Return(g)
    /\ UNCHANGED <<written, warnings, lock, finalized, started>>

\* What a ToCodeGeneratorResponse returned: its error, and the response its
\* validation found.
ReturnedTo(g, err, response) == [goroutine |-> g, err |-> err, response |-> response]

\* ToCodeGeneratorResponse(): r.lock.RLock().
RLockedToCodeGeneratorResponse(g) ==
    /\ InCall(g, "idle") /\ started < MaxCalls
    /\ CanRLock(lock)
    /\ lock' = RLock(g)
    /\ started' = started + 1
    /\ Continue(g, "written")
    /\ UNCHANGED <<codeGeneratorResponse, written, warnings, completed, finalized>>

\* if r.written { return nil, errors.New("ResponseWriter cannot be reused") }
CheckWrittenStep(g) ==
    /\ InCall(g, "written")
    /\ IF Reused(written)
       THEN /\ finalized' = Append(finalized,
                                   ReturnedTo(g, "ResponseWriter cannot be reused",
                                              EmptyResponse))
            /\ lock' = RUnlock(g)
            /\ Return(g)
       ELSE /\ Continue(g, "mark")
            /\ UNCHANGED <<lock, finalized>>
    /\ UNCHANGED <<codeGeneratorResponse, written, warnings, completed, started>>

\* r.written = true
MarkWrittenStep(g) ==
    /\ InCall(g, "mark")
    /\ written' = TRUE
    /\ Continue(g, "validate")
    /\ UNCHANGED <<codeGeneratorResponse, warnings, lock, completed, finalized, started>>

\* validateAndNormalizeCodeGeneratorResponse, the return and the deferred
\* r.lock.RUnlock().
ValidateStepOf(g, v) ==
    /\ codeGeneratorResponse' = v.response
    /\ warnings' = warnings \o v.warnings
    /\ finalized' = Append(finalized, ReturnedTo(g, v.err, codeGeneratorResponse))
    /\ lock' = RUnlock(g)
    /\ Return(g)
    /\ UNCHANGED <<written, completed, started>>

ValidateStep(g) ==
    /\ InCall(g, "validate")
    /\ ValidateStepOf(g, validateAndNormalizeCodeGeneratorResponse(codeGeneratorResponse,
                                                                   lenient))

LockNames == {NameA, NameB}
LockShapes == {<<Shape(NameA, "", TRUE), Shape(NameB, "", TRUE)>>}
LockEditions == {3, 5}

InitLock ==
    /\ IdleWriter /\ IdleRequest /\ IdlePath /\ IdleRun /\ IdleStrip /\ IdleVersion /\ IdleOnce
    /\ IdleLock

NextLock ==
    \/ \E g \in Goroutines, name \in LockNames :
           LockedAddFile(g, name) /\ UNCHANGED <<writerRest, exceptLock>>
    \/ \E g \in Goroutines, shapes \in LockShapes :
           LockedAddCodeGeneratorResponseFiles(g, shapes) /\ UNCHANGED <<writerRest, exceptLock>>
    \/ \E g \in Goroutines : GetFileStep(g) /\ UNCHANGED <<writerRest, exceptLock>>
    \/ \E g \in Goroutines : AppendStep(g) /\ UNCHANGED <<writerRest, exceptLock>>
    \/ \E g \in Goroutines, edition \in LockEditions :
           LockedSetFeatureSupportsEditions(g, edition, edition)
               /\ UNCHANGED <<writerRest, exceptLock>>
    \/ \E g \in Goroutines : GetSupportedFeaturesStep(g) /\ UNCHANGED <<writerRest, exceptLock>>
    \/ \E g \in Goroutines : AddSupportedFeaturesStep(g) /\ UNCHANGED <<writerRest, exceptLock>>
    \/ \E g \in Goroutines : SetMinimumEditionStep(g) /\ UNCHANGED <<writerRest, exceptLock>>
    \/ \E g \in Goroutines : SetMaximumEditionStep(g) /\ UNCHANGED <<writerRest, exceptLock>>
    \/ \E g \in Goroutines :
           RLockedToCodeGeneratorResponse(g) /\ UNCHANGED <<writerRest, exceptLock>>
    \/ \E g \in Goroutines : CheckWrittenStep(g) /\ UNCHANGED <<writerRest, exceptLock>>
    \/ \E g \in Goroutines : MarkWrittenStep(g) /\ UNCHANGED <<writerRest, exceptLock>>
    \/ \E g \in Goroutines : ValidateStep(g) /\ UNCHANGED <<writerRest, exceptLock>>

SpecLock == InitLock /\ [][NextLock]_vars

(***************************************************************************)
(* Notions the properties are stated with.                                 *)
(***************************************************************************)
ReusedError == "ResponseWriter cannot be reused"

\* The latest call was the ToCodeGeneratorResponse that ran the validation.
FirstFinalize == lastCall.finalize /\ ret.err # ReusedError

Named(file) == file.Name # <<>>

\* The indices of the named records of a list, in order.
RECURSIVE NamedIndices(_, _)
NamedIndices(files, i) ==
    IF i > Len(files) THEN <<>>
    ELSE (IF Named(files[i]) THEN <<i>> ELSE <<>>) \o NamedIndices(files, i + 1)

\* The contents of the nameless records that follow record i, up to the next
\* named record or the end, concatenated in order.
RECURSIVE Continuation(_, _)
Continuation(files, i) ==
    IF i + 1 > Len(files) \/ Named(files[i + 1]) THEN <<>>
    ELSE files[i + 1].Content.val \o Continuation(files, i + 1)

\* What a record shows to a reader: name, insertion point, content string.
View(file) == <<file.Name, file.InsertionPoint, file.Content.val>>
Views(files) == [k \in 1..Len(files) |-> View(files[k])]

\* The list the empty-name merge is claimed to produce.
MergeExpected(files) ==
    LET idx == NamedIndices(files, 1)
    IN  [k \in 1..Len(idx) |->
            <<files[idx[k]].Name, files[idx[k]].InsertionPoint,
              files[idx[k]].Content.val \o Continuation(files, idx[k])>>]

NamelessWithInsertionPoint(files) ==
    \E i \in 1..Len(files) : ~Named(files[i]) /\ files[i].InsertionPoint # ""

\* The list phase A hands to phase B for the input of the latest call.
MergeOfInput == FilesWithPotentialEmptyNames(lastCall.input)
MergedInput == Deref(MergeOfInput.heap, MergeOfInput.result)

(***************************************************************************)
(* C1.  Empty-name merge: for a file list whose first record is named and  *)
(* in which no nameless record has an insertion point, the merge succeeds  *)
(* and yields the named records in their order, each with its own content  *)
(* followed by the contents of the nameless records up to the next named   *)
(* record; a strict ToCodeGeneratorResponse that succeeds returns exactly  *)
(* that list.                                                              *)
(***************************************************************************)
C1_Mergeable ==
    /\ lastCall.finalize
    /\ Len(lastCall.input) > 0
    /\ Named(lastCall.input[1])
    /\ ~NamelessWithInsertionPoint(lastCall.input)

C1_EmptyNameMerge ==
    C1_Mergeable =>
        /\ MergeOfInput.err = ""
        /\ Views(MergedInput) = MergeExpected(lastCall.input)
        /\ Len(MergedInput) = Cardinality({i \in 1..Len(lastCall.input) : Named(lastCall.input[i])})
        /\ \A k \in 1..Len(MergedInput) : Named(MergedInput[k])
        /\ (FirstFinalize /\ ret.present /\ ~lenient) =>
               Views(codeGeneratorResponse.File) = MergeExpected(lastCall.input)

\* A named record followed by two nameless records with content was merged
\* and returned.
C1_Witness ==
    /\ C1_Mergeable
    /\ FirstFinalize /\ ret.present /\ ~lenient
    /\ Len(lastCall.input) = 3
    /\ \A i \in 2..3 : ~Named(lastCall.input[i]) /\ lastCall.input[i].Content.set
    /\ lastCall.input[1].Content.set
    /\ Len(codeGeneratorResponse.File) = 1
    /\ Len(codeGeneratorResponse.File[1].Content.val) = 3

(***************************************************************************)
(* C2.  Empty-name merge rejections: a non-empty file list whose first     *)
(* record is nameless, or in which some nameless record has an insertion   *)
(* point, makes the merge fail; ToCodeGeneratorResponse returns no         *)
(* response, strict or lenient, and the warning callback is not called.    *)
(***************************************************************************)
C2_Rejected ==
    /\ lastCall.finalize
    /\ Len(lastCall.input) > 0
    /\ ~Named(lastCall.input[1]) \/ NamelessWithInsertionPoint(lastCall.input)

C2_EmptyNameRejections ==
    C2_Rejected =>
        /\ MergeOfInput.err # ""
        /\ ~ret.present
        /\ FirstFinalize =>
               /\ ret.err \in {"first value had no name set",
                               "empty name with non-empty insertion point"}
               /\ warnings = <<>>

\* Lenient mode, an unnormalized name before a nameless record with an
\* insertion point: rejected, and nothing reached the callback.
C2_Witness ==
    /\ C2_Rejected /\ FirstFinalize /\ lenient
    /\ Len(lastCall.input) = 3
    /\ lastCall.input[1].Name = NameDotA
    /\ Named(lastCall.input[2])
    /\ ~Named(lastCall.input[3]) /\ lastCall.input[3].InsertionPoint # ""
    /\ ret.err = "empty name with non-empty insertion point"

(***************************************************************************)
(* C3.  Finalized-response invariant: in every response that               *)
(* ToCodeGeneratorResponse returns, strict or lenient, every file has a    *)
(* non-empty, relative name equal to its cleaned form, and no two files    *)
(* without insertion point have the same name.                             *)
(***************************************************************************)
Canonical(name) == name # <<>> /\ Clean(name) = name /\ name[1] # "/"

DistinctWithoutInsertionPoint(files) ==
    \A i, j \in 1..Len(files) :
        (i # j /\ files[i].InsertionPoint = "" /\ files[j].InsertionPoint = "")
            => files[i].Name # files[j].Name

C3_FinalizedResponse ==
    (lastCall.finalize /\ ret.present) =>
        /\ \A i \in 1..Len(codeGeneratorResponse.File) :
               Canonical(codeGeneratorResponse.File[i].Name)
        /\ DistinctWithoutInsertionPoint(codeGeneratorResponse.File)

\* A lenient writer was given an unnormalized name, a duplicate of it and a
\* nameless record, and returned a response.
C3_Witness ==
    /\ lastCall.finalize /\ ret.present /\ lenient
    /\ Len(lastCall.input) = 3
    /\ lastCall.input[1].Name = NameDotA
    /\ lastCall.input[2].Name = NameA /\ lastCall.input[2].InsertionPoint = ""
    /\ ~Named(lastCall.input[3])
    /\ Len(codeGeneratorResponse.File) = 1

(***************************************************************************)
(* C4.  Strict duplicate handling: without a lenient callback, a merged    *)
(* list with two records without insertion point and with equal names      *)
(* makes ToCodeGeneratorResponse return an error and no response.          *)
(***************************************************************************)
C4_StrictDuplicateInput ==
    /\ lastCall.finalize /\ ~lenient
    /\ MergeOfInput.err = ""
    /\ ~DistinctWithoutInsertionPoint(MergedInput)

C4_StrictDuplicate ==
    C4_StrictDuplicateInput => (~ret.present /\ ret.err # "")

\* Two valid, normalized records named alike: the duplicate is the error.
C4_Witness ==
    /\ C4_StrictDuplicateInput /\ FirstFinalize
    /\ ret.err = "duplicate file name"

(***************************************************************************)
(* C5.  Lenient duplicate handling: with a lenient callback and a merged   *)
(* list without insertion points, the finalized list is the sub-list of    *)
(* the first occurrences of each canonical name, in order and under that   *)
(* name; the callback got one duplicate warning per dropped record; and    *)
(* ToCodeGeneratorResponse succeeds (whenever every name is a valid path   *)
(* and the feature checks pass: a duplicate is no cause of failure).       *)
(***************************************************************************)
Accepted(name) == validateAndNormalizePath(name).err = ""

\* The indices of a list, in order, that satisfy keep.
RECURSIVE Indices(_, _, _)
Indices(files, keep(_), i) ==
    IF i > Len(files) THEN <<>>
    ELSE (IF keep(i) THEN <<i>> ELSE <<>>) \o Indices(files, keep, i + 1)

FirstOccurrence(files, i) ==
    \A j \in 1..(i - 1) : Clean(files[j].Name) # Clean(files[i].Name)

WithCanonicalName(file) == [file EXCEPT !.Name = Clean(file.Name)]

FirstOccurrences(files) ==
    LET keep(i) == FirstOccurrence(files, i)
        idx == Indices(files, keep, 1)
    IN  [k \in 1..Len(idx) |-> WithCanonicalName(files[idx[k]])]

DroppedNames(files) ==
    LET drop(i) == ~FirstOccurrence(files, i)
        idx == Indices(files, drop, 1)
    IN  [k \in 1..Len(idx) |-> Clean(files[idx[k]].Name)]

WarningsOfKind(kind) ==
    LET is(w) == w.kind = kind IN SelectSeq(warnings, is)

C5_LenientInput ==
    /\ FirstFinalize /\ lenient
    /\ MergeOfInput.err = ""
    /\ \A i \in 1..Len(MergedInput) : MergedInput[i].InsertionPoint = ""

C5_LenientDuplicates ==
    C5_LenientInput =>
        /\ ((\A i \in 1..Len(MergedInput) : Accepted(MergedInput[i].Name))
             /\ FeaturesError(codeGeneratorResponse) = "") => ret.present
        /\ ret.present =>
              /\ codeGeneratorResponse.File = FirstOccurrences(MergedInput)
              /\ LET dup == WarningsOfKind("duplicate")
                 IN  [k \in 1..Len(dup) |-> dup[k].name] = DroppedNames(MergedInput)

\* Three records: a, b, and a again; the second a was dropped with a warning.
C5_Witness ==
    /\ C5_LenientInput /\ ret.present
    /\ Len(MergedInput) = 3
    /\ MergedInput[1].Name = NameA /\ MergedInput[2].Name = NameB
    /\ MergedInput[3].Name = NameA
    /\ Len(codeGeneratorResponse.File) = 2
    /\ Len(WarningsOfKind("duplicate")) = 1

(***************************************************************************)
(* C6.  Unnormalized file name: a record whose name the path normalizer    *)
(* accepts but which differs from its canonical form makes a strict        *)
(* ToCodeGeneratorResponse fail (with the unnormalized-name error when no  *)
(* record before it is at fault); in lenient mode the callback gets one    *)
(* unnormalized-name warning for it, the canonical form becomes its name,  *)
(* and the duplicate check goes on with the canonical name.                *)
(***************************************************************************)
Unnormalized(name) == Accepted(name) /\ Clean(name) # name

\* The records phase B reaches in lenient mode: those before the first
\* record with an invalid path.
Reached(files, i) == \A j \in 1..(i - 1) : Accepted(files[j].Name)

UnnormalizedReached(files) ==
    LET u(i) == Unnormalized(files[i].Name) /\ Reached(files, i)
        idx == Indices(files, u, 1)
    IN  [k \in 1..Len(idx) |-> <<files[idx[k]].Name, Clean(files[idx[k]].Name)>>]

C6_UnnormalizedInput ==
    /\ FirstFinalize
    /\ MergeOfInput.err = ""
    /\ \E i \in 1..Len(MergedInput) : Unnormalized(MergedInput[i].Name)

C6_UnnormalizedName ==
    C6_UnnormalizedInput =>
        /\ ~lenient =>
              /\ ~ret.present
              /\ warnings = <<>>
              /\ \A i \in 1..Len(MergedInput) :
                    (/\ Unnormalized(MergedInput[i].Name)
                     /\ \A j \in 1..(i - 1) :
                           /\ Accepted(MergedInput[j].Name)
                           /\ ~Unnormalized(MergedInput[j].Name)
                           /\ \A k \in 1..(j - 1) : MergedInput[k].Name # MergedInput[j].Name)
                        => ret.err = "unnormalized file name"
        /\ lenient =>
              /\ LET un == WarningsOfKind("unnormalized")
                 IN  [k \in 1..Len(un) |-> <<un[k].name, un[k].normalizedName>>]
                         = UnnormalizedReached(MergedInput)
              /\ ret.present =>
                    /\ \A i \in 1..Len(codeGeneratorResponse.File) :
                          Canonical(codeGeneratorResponse.File[i].Name)
                    /\ DistinctWithoutInsertionPoint(codeGeneratorResponse.File)
                    /\ \A i \in 1..Len(MergedInput) :
                          \E k \in 1..Len(codeGeneratorResponse.File) :
                              codeGeneratorResponse.File[k].Name = Clean(MergedInput[i].Name)

\* Lenient: "a" then "./a", both without insertion point; "./a" was warned
\* about, renamed to "a", and then dropped as a duplicate of the first.
C6_Witness ==
    /\ C6_UnnormalizedInput /\ lenient /\ ret.present
    /\ Len(MergedInput) = 2
    /\ MergedInput[1].Name = NameA /\ MergedInput[2].Name = NameDotA
    /\ MergedInput[2].InsertionPoint = ""
    /\ Len(WarningsOfKind("unnormalized")) = 1
    /\ Len(WarningsOfKind("duplicate")) = 1
    /\ Len(codeGeneratorResponse.File) = 1

(***************************************************************************)
(* C7.  Edition consistency: with the editions bit set in the feature mask *)
(* at finalize, ToCodeGeneratorResponse returns no response if             *)
(* minimumEdition is 0, if maximumEdition is 0, or if minimumEdition >     *)
(* maximumEdition, strict or lenient, and the callback gets nothing but    *)
(* the warnings about the files; with both editions non-zero and           *)
(* minimumEdition <= maximumEdition the edition check passes.              *)
(***************************************************************************)
EditionsBit(features) == (features \div FEATURE_SUPPORTS_EDITIONS) % 2 = 1

EditionErrors ==
    {"FEATURE_SUPPORTS_EDITIONS specified but no minimum_edition set",
     "FEATURE_SUPPORTS_EDITIONS specified but no maximum_edition set",
     "minimum_edition is greater than maximum_edition"}

DuplicatesOfInput == FilesWithPotentialDuplicates(MergedInput, lenient)

C7_Inconsistent ==
    /\ lastCall.finalize
    /\ EditionsBit(codeGeneratorResponse.SupportedFeatures)
    /\ \/ codeGeneratorResponse.MinimumEdition = 0
       \/ codeGeneratorResponse.MaximumEdition = 0
       \/ codeGeneratorResponse.MinimumEdition > codeGeneratorResponse.MaximumEdition

C7_Consistent ==
    /\ FirstFinalize
    /\ EditionsBit(codeGeneratorResponse.SupportedFeatures)
    /\ codeGeneratorResponse.MinimumEdition # 0
    /\ codeGeneratorResponse.MaximumEdition # 0
    /\ codeGeneratorResponse.MinimumEdition <= codeGeneratorResponse.MaximumEdition

C7_EditionConsistency ==
    /\ C7_Inconsistent =>
          /\ ~ret.present /\ ret.err # ""
          /\ (FirstFinalize /\ MergeOfInput.err = "") => warnings = DuplicatesOfInput.warnings
    /\ C7_Consistent =>
          /\ ret.err \notin EditionErrors
          /\ (/\ codeGeneratorResponse.SupportedFeatures \in 0..allSupportedFeaturesMask
              /\ MergeOfInput.err = ""
              /\ DuplicatesOfInput.err = "") => ret.present

\* Lenient mode, minimumEdition 5 above maximumEdition 3, after the files
\* passed with a warning: the edition error, and no further warning.
C7_Witness ==
    /\ C7_Inconsistent /\ FirstFinalize /\ lenient
    /\ codeGeneratorResponse.MinimumEdition = 5
    /\ codeGeneratorResponse.MaximumEdition = 3
    /\ ret.err = "minimum_edition is greater than maximum_edition"
    /\ Len(warnings) = 1

(***************************************************************************)
(* C8.  Every response ToCodeGeneratorResponse returns has minimumEdition  *)
(* <= maximumEdition, whether or not the editions bit is set.  Stated for  *)
(* the responses in which both editions were set, so that an edition left  *)
(* unset is not read as the edition 0.                                     *)
(***************************************************************************)
C8_MinimumAtMostMaximum ==
    (/\ lastCall.finalize /\ ret.present
     /\ codeGeneratorResponse.MinimumEdition # 0
     /\ codeGeneratorResponse.MaximumEdition # 0)
        => codeGeneratorResponse.MinimumEdition <= codeGeneratorResponse.MaximumEdition

(***************************************************************************)
(* C9.  Finalize-once: only the first call of ToCodeGeneratorResponse can  *)
(* return a response; every later call returns the "cannot be reused"      *)
(* error and no response, whatever the first call returned.                *)
(***************************************************************************)
C9_FinalizeOnce ==
    /\ calls >= 2 => (ret.err = ReusedError /\ ~ret.present)
    /\ ret.present => calls = 1

\* A second call, made after further mutating calls, on a writer whose
\* files and features would pass the validation.
C9_Witness ==
    /\ calls = 2 /\ lastCall.finalize
    /\ ret.err = ReusedError /\ ~ret.present
    /\ Len(codeGeneratorResponse.File) = 2
    /\ FeaturesError(codeGeneratorResponse) = ""
    /\ validateAndNormalizeCodeGeneratorResponse(codeGeneratorResponse, lenient).err = ""

UnknownFeaturesError == "supported_features: unknown CodeGeneratorResponse.Features"

HasUnknownBit(mask) ==
    mask \div (FEATURE_PROTO3_OPTIONAL + FEATURE_SUPPORTS_EDITIONS + 1) # 0

NamesOf(fileDescriptorProtos) ==
    {fileDescriptorProtos[i].Name : i \in 1..Len(fileDescriptorProtos)}

\* The number of descriptors of a list that have the given name.
Occurrences(fileDescriptorProtos, name) ==
    Cardinality({i \in 1..Len(fileDescriptorProtos) : fileDescriptorProtos[i].Name = name})

NoDuplicates(s) == Cardinality(Elements(s)) = Len(s)

C12_AcceptedRequest ==
    request.present =>
        /\ Len(codeGeneratorRequest.FileToGenerate) > 0
        /\ Len(codeGeneratorRequest.ProtoFile) > 0
        /\ NoDuplicates(codeGeneratorRequest.FileToGenerate)
        /\ Cardinality(NamesOf(codeGeneratorRequest.ProtoFile))
               = Len(codeGeneratorRequest.ProtoFile)
        /\ \A i \in 1..Len(codeGeneratorRequest.FileToGenerate) :
               Occurrences(codeGeneratorRequest.ProtoFile,
                           codeGeneratorRequest.FileToGenerate[i]) = 1
        /\ Len(codeGeneratorRequest.SourceFileDescriptors) > 0
               => NamesOf(codeGeneratorRequest.SourceFileDescriptors)
                      = Elements(codeGeneratorRequest.FileToGenerate)

\* An accepted request: proto_file holds a descriptor that is not to be
\* generated, and source_file_descriptors is given.
C12_Witness ==
    /\ request.present
    /\ codeGeneratorRequest.FileToGenerate = <<PathB>>
    /\ Len(codeGeneratorRequest.ProtoFile) = 2
    /\ NamesOf(codeGeneratorRequest.SourceFileDescriptors) = {PathB}

(***************************************************************************)
(* C13.  The list GenerateFileDescriptorProtos returns for an accepted     *)
(* request is as long as file_to_generate, and its i-th element is the     *)
(* descriptor named by the i-th path of file_to_generate, whatever the     *)
(* order of proto_file (or of source_file_descriptors, for a Request with  *)
(* source-retention options).                                              *)
(***************************************************************************)
C13_GenerateOrder ==
    accessed.op = "GenerateFileDescriptorProtos" =>
        /\ Len(accessed.refs) = Len(codeGeneratorRequest.FileToGenerate)
        /\ \A i \in 1..Len(accessed.refs) :
               Descriptor(codeGeneratorRequest, accessed.refs[i]).Name
                   = codeGeneratorRequest.FileToGenerate[i]

(***************************************************************************)
(* C13, amended.  The list has the length of file_to_generate and holds    *)
(* exactly the descriptors file_to_generate names, in the order in which   *)
(* proto_file holds them; for a Request with source-retention options it   *)
(* is source_file_descriptors, in its own order.                           *)
(***************************************************************************)
Increasing(refs) ==
    \A i \in 1..Len(refs), j \in 1..Len(refs) :
        i < j => refs[i].index < refs[j].index

C13_GenerateInListOrder ==
    accessed.op = "GenerateFileDescriptorProtos" =>
        /\ Len(accessed.refs) = Len(codeGeneratorRequest.FileToGenerate)
        /\ {Descriptor(codeGeneratorRequest, accessed.refs[i]).Name :
                i \in 1..Len(accessed.refs)}
               = Elements(codeGeneratorRequest.FileToGenerate)
        /\ Increasing(accessed.refs)
        /\ \A i \in 1..Len(accessed.refs) :
               accessed.refs[i].list =
                   IF request.sourceRetentionOptions
                   THEN "source_file_descriptors" ELSE "proto_file"

\* file_to_generate is b.proto, a.proto and proto_file holds a.proto first:
\* the list is a.proto, b.proto.
C13_Witness ==
    /\ accessed.op = "GenerateFileDescriptorProtos"
    /\ codeGeneratorRequest.FileToGenerate = <<PathB, PathA>>
    /\ accessed.refs = <<ProtoFileRef(1), ProtoFileRef(2)>>
    /\ codeGeneratorRequest.ProtoFile[1].Name = PathA

(***************************************************************************)
(* C14.  Dependency closure: in every request newRequest accepts, each     *)
(* dependency of each descriptor of proto_file is the name of a descriptor *)
(* of proto_file.                                                          *)
(***************************************************************************)
C14_DependencyClosed ==
    request.present =>
        \A i \in 1..Len(codeGeneratorRequest.ProtoFile) :
            Elements(codeGeneratorRequest.ProtoFile[i].Dependency)
                \subseteq NamesOf(codeGeneratorRequest.ProtoFile)

(***************************************************************************)
(* C14, amended.  The validator checks the form of the dependencies only:  *)
(* in every accepted request each dependency of each descriptor of         *)
(* proto_file and of source_file_descriptors is a non-empty, relative,     *)
(* normalized path that does not start with "../" and ends in ".proto",    *)
(* and no descriptor lists a dependency twice.  A dependency need not name *)
(* a descriptor of the request.                                            *)
(***************************************************************************)
ValidProtoPath(path) ==
    /\ path # <<>>
    /\ Clean(path) = path
    /\ ~IsAbs(path)
    /\ ~HasPrefix(path, <<".", ".", "/">>)
    /\ Ext(path) = ProtoExt

ValidDependencies(fileDescriptorProtos) ==
    \A i \in 1..Len(fileDescriptorProtos) :
        /\ NoDuplicates(fileDescriptorProtos[i].Dependency)
        /\ \A path \in Elements(fileDescriptorProtos[i].Dependency) : ValidProtoPath(path)

C14_DependenciesValid ==
    request.present =>
        /\ ValidDependencies(codeGeneratorRequest.ProtoFile)
        /\ ValidDependencies(codeGeneratorRequest.SourceFileDescriptors)

\* An accepted request whose b.proto imports c.proto, which it does not hold.
C14_Witness ==
    /\ request.present
    /\ \E i \in 1..Len(codeGeneratorRequest.ProtoFile) :
           /\ codeGeneratorRequest.ProtoFile[i].Dependency = <<PathC>>
           /\ PathC \notin NamesOf(codeGeneratorRequest.ProtoFile)

(***************************************************************************)
(* C15.  Request validation fails fast: the one error newRequest returns   *)
(* is that of the earliest violated check, in the order (1) the request is *)
(* present, (2) proto_file is not empty, then file_to_generate is not      *)
(* empty, (3) the paths of file_to_generate are valid and without          *)
(* duplicates, (4) the names and dependencies of the descriptors of        *)
(* proto_file are valid and the names unique, (5) file_to_generate is      *)
(* contained in proto_file, (6) the same for a non-empty                   *)
(* source_file_descriptors, with equality, (7) the compiler version is not *)
(* negative; and with an error no Request is returned.                     *)
(***************************************************************************)
ValidDescriptors(fileDescriptorProtos) ==
    /\ \A i \in 1..Len(fileDescriptorProtos) :
           /\ ~fileDescriptorProtos[i].isNil
           /\ ValidProtoPath(fileDescriptorProtos[i].Name)
    /\ ValidDependencies(fileDescriptorProtos)
    /\ Cardinality(NamesOf(fileDescriptorProtos)) = Len(fileDescriptorProtos)

\* Whether the request violates the check of the given place in the order.
Violates(r, check) ==
    CASE check = 1 -> r.isNil
      [] check = 2 -> Len(r.ProtoFile) = 0 \/ Len(r.FileToGenerate) = 0
      [] check = 3 -> \/ \E path \in Elements(r.FileToGenerate) : ~ValidProtoPath(path)
                      \/ ~NoDuplicates(r.FileToGenerate)
      [] check = 4 -> ~ValidDescriptors(r.ProtoFile)
      [] check = 5 -> ~(Elements(r.FileToGenerate) \subseteq NamesOf(r.ProtoFile))
      [] check = 6 -> /\ Len(r.SourceFileDescriptors) > 0
                      /\ \/ ~ValidDescriptors(r.SourceFileDescriptors)
                         \/ NamesOf(r.SourceFileDescriptors) # Elements(r.FileToGenerate)
      [] check = 7 -> /\ ~r.CompilerVersion.isNil
                      /\ \/ r.CompilerVersion.Major < 0
                         \/ r.CompilerVersion.Minor < 0
                         \/ r.CompilerVersion.Patch < 0

Checks == 1..7

\* The check an error reports, read off the field and the message.
CheckOf(err) ==
    CASE err.field = "CodeGeneratorRequest" -> 1
      [] err.what = "empty" -> 2
      [] err = FieldError("file_to_generate", "path is not contained within proto_file") -> 5
      [] err = FieldError("file_to_generate",
                          "path is not contained within source_file_descriptors") -> 6
      [] err.field = "file_to_generate" -> 3
      [] err.field \in {"proto_file", "proto_file.name", "proto_file.dependency"} -> 4
      [] err.field \in {"source_file_descriptors", "source_file_descriptors.name",
                        "source_file_descriptors.dependency"} -> 6
      [] err.field = "compiler_version" -> 7
      [] OTHER -> 0

C15_FailFast ==
    request.called =>
        /\ request.present <=> request.err = NoError
        /\ request.err = NoError
               <=> \A check \in Checks : ~Violates(codeGeneratorRequest, check)
        /\ request.err # NoError =>
               /\ Violates(codeGeneratorRequest, CheckOf(request.err))
               /\ \A check \in 1..(CheckOf(request.err) - 1) :
                      ~Violates(codeGeneratorRequest, check)
        /\ (~codeGeneratorRequest.isNil /\ Len(codeGeneratorRequest.ProtoFile) = 0)
               => request.err = FieldError("proto_file", "empty")

\* A request that violates the checks 3, 4 and 7: the error is that of 3.
C15_Witness ==
    /\ request.called /\ ~request.present
    /\ Violates(codeGeneratorRequest, 3)
    /\ Violates(codeGeneratorRequest, 4)
    /\ Violates(codeGeneratorRequest, 7)
    /\ request.err = FieldError("file_to_generate",
                                "path should have the .proto file extension")

(***************************************************************************)
(* C16.  validateAndNormalizePath is idempotent on the paths it accepts:   *)
(* the path it returns is accepted and returned as it is.  A relative path *)
(* that is already canonical is returned unchanged, "a/../b" gives "b",    *)
(* and "/a/b", "../a" and the empty path are rejected.                     *)
(***************************************************************************)
\* The elements of a path, split at the separators.
RECURSIVE Split(_, _, _)
Split(p, i, element) ==
    IF i > Len(p) THEN <<element>>
    ELSE IF p[i] = "/" THEN <<element>> \o Split(p, i + 1, <<>>)
    ELSE Split(p, i + 1, Append(element, p[i]))

\* A relative path in canonical form: elements that are names, one
\* separator between two of them.
CanonicalRelative(p) ==
    \A element \in Elements(Split(p, 1, <<>>)) :
        element \notin {<<>>, <<".">>, <<".", ".">>}

APathUpB == <<"a", "/", ".", ".", "/", "b">>

C16_Idempotent ==
    /\ secondPass.called => (secondPass.err = "" /\ secondPass.path = firstPass.path)
    /\ (firstPass.called /\ CanonicalRelative(givenPath))
           => (firstPass.err = "" /\ firstPass.path = givenPath)
    /\ (firstPass.called /\ givenPath = APathUpB)
           => (firstPass.err = "" /\ firstPass.path = <<"b">>)
    /\ (firstPass.called
        /\ givenPath \in {<<"/", "a", "/", "b">>, <<".", ".", "/", "a">>, <<>>})
           => firstPass.err # ""

\* "a/../b" was normalized to "b", and "b" was normalized again.
C16_Witness ==
    /\ givenPath = APathUpB
    /\ secondPass.called /\ secondPass.path = <<"b">>

(***************************************************************************)
(* C17.  The arguments of run.  With the one argument "--version" and a    *)
(* version configured, the version and a newline are written to stdout;    *)
(* with any other non-empty argument list run returns the unknown          *)
(* arguments error and writes nothing.  In both cases stdin is never read  *)
(* and the handler is never called.                                        *)
(***************************************************************************)
C17_Arguments ==
    Len(args) > 0 =>
        /\ stdinRead = "no" /\ unmarshalled = "no" /\ handled = 0
        /\ pc \in {"start", "done"}
        /\ pc = "start" => stdout = <<>>
        /\ pc = "done" =>
               IF args = <<"--version">> /\ version # ""
               THEN stdout = <<version \o "\n">>
               ELSE runRet = RunReturned(UnknownArgumentsError) /\ stdout = <<>>

\* run(["--version"]) with WithVersion("0.0.1") has returned nil.
C17_Witness ==
    /\ pc = "done" /\ args = <<"--version">> /\ version = "0.0.1"
    /\ stdout = <<"0.0.1\n">>
    /\ runRet = RunReturned("")

(***************************************************************************)
(* C18.  The order of run with no arguments.  The handler is called at     *)
(* most once, and only after the input was read, unmarshalled and accepted *)
(* by the request validation.  Stdout is written at most once, and only    *)
(* after the handler returned nil and ToCodeGeneratorResponse succeeded.   *)
(* If the read, the request validation, the handler or                     *)
(* ToCodeGeneratorResponse fails, run returns that error and nothing is    *)
(* written.                                                                *)
(***************************************************************************)
\* run has called ToCodeGeneratorResponse itself.
RunFinalized == handlerRet = "nil" /\ pc \in {"marshal", "write", "done"}

C18_Lifecycle ==
    Len(args) = 0 =>
        /\ handled <= 1
        /\ handled = 1 =>
               (stdinRead = "ok" /\ unmarshalled = "ok" /\ request.present)
        /\ Len(stdout) <= 1
        /\ stdout # <<>> => (RunFinalized /\ ret.present /\ stdout = <<"CodeGeneratorResponse">>)
        /\ stdinRead = "failed" =>
               (runRet = RunReturned("read error") /\ stdout = <<>> /\ handled = 0)
        /\ unmarshalled = "failed" =>
               (runRet = RunReturned("unmarshal error") /\ stdout = <<>> /\ handled = 0)
        /\ (request.called /\ ~request.present) =>
               /\ runRet = RunReturned(ErrorString(request.err))
               /\ stdout = <<>> /\ handled = 0
        /\ handlerRet = "error" =>
               (runRet = RunReturned("handler error") /\ stdout = <<>>)
        /\ (RunFinalized /\ ~ret.present) =>
               (ret.err # "" /\ runRet = RunReturned(ret.err) /\ stdout = <<>>)

\* A handler that added a file and returned nil: the response was written.
C18_Witness ==
    /\ Len(args) = 0 /\ pc = "done"
    /\ handled = 1 /\ handlerRet = "nil"
    /\ Len(codeGeneratorResponse.File) = 1 /\ ret.present
    /\ stdout = <<"CodeGeneratorResponse">>
    /\ runRet = RunReturned("")

(***************************************************************************)
(* C19.  Structural sharing: every descriptor of the result of             *)
(* StripSourceRetentionOptions is the very object of the input at its      *)
(* place exactly when neither the options of that descriptor nor the       *)
(* options of a descriptor below it have a field of source retention.      *)
(***************************************************************************)
RECURSIVE HasSourceRetention(_)
HasSourceRetention(descriptor) ==
    \/ hasFieldToStrip(descriptor.options)
    \/ \E i \in DOMAIN descriptor.children :
         \E j \in DOMAIN descriptor.children[i] :
           HasSourceRetention(descriptor.children[i][j])

SameShape(given, result) ==
    /\ DOMAIN result.children = DOMAIN given.children
    /\ \A i \in DOMAIN given.children :
         DOMAIN result.children[i] = DOMAIN given.children[i]

RECURSIVE Shares(_, _)
Shares(given, result) ==
    /\ result.ref = given.ref <=> ~HasSourceRetention(given)
    /\ result.ref = given.ref => result = given
    /\ SameShape(given, result)
    /\ \A i \in DOMAIN given.children :
         \A j \in DOMAIN given.children[i] :
           Shares(given.children[i][j], result.children[i][j])

C19_StructuralSharing ==
    strippedFile.called => Shares(givenFile, strippedFile.file)

\* The one field of source retention is in the options of the method: the
\* file, the service and the method are new, the messages, the enum and the
\* extension are those of the input.
C19_Witness ==
    /\ strippedFile.called
    /\ hasFieldToStrip(givenFile.children[4][1].children[1][1].options)
    /\ \A i \in 1..3 : \A j \in DOMAIN givenFile.children[i] :
         ~HasSourceRetention(givenFile.children[i][j])
    /\ ~hasFieldToStrip(givenFile.options)
    /\ ~hasFieldToStrip(givenFile.children[4][1].options)
    /\ strippedFile.file.ref = NewRef(givenFile.ref)
    /\ strippedFile.file.children[4][1].ref = NewRef(givenFile.children[4][1].ref)
    /\ strippedFile.file.children[4][1].children[1][1].ref
         = NewRef(givenFile.children[4][1].children[1][1].ref)
    /\ \A i \in 1..3 :
         strippedFile.file.children[i] = givenFile.children[i]

(***************************************************************************)
(* C20.  The result of StripSourceRetentionOptions: the options of every   *)
(* descriptor hold exactly the fields of the input's options that are not  *)
(* of source retention, with their values; options whose set fields are    *)
(* all of source retention are absent; options with no such field are the  *)
(* input's; and all other fields, and the number and order of the          *)
(* children, are the input's.                                              *)
(***************************************************************************)
OptionsResult(given, result) ==
    IF ~hasFieldToStrip(given)
    THEN result = given
    ELSE IF FieldsToKeep(given) = {}
    THEN result.isNil
    ELSE ~result.isNil /\ result.fields = FieldsToKeep(given)

RECURSIVE DescriptorResult(_, _)
DescriptorResult(given, result) ==
    /\ OptionsResult(given.options, result.options)
    /\ result.kind = given.kind
    /\ result.name = given.name
    /\ SameShape(given, result)
    /\ \A i \in DOMAIN given.children :
         \A j \in DOMAIN given.children[i] :
           DescriptorResult(given.children[i][j], result.children[i][j])

SameSourceCodeInfo(given, result) ==
    /\ result.SourceCodeInfo.isNil = given.SourceCodeInfo.isNil
    /\ result.SourceCodeInfo.Location = given.SourceCodeInfo.Location

C20_Result ==
    strippedFile.called =>
        /\ DescriptorResult(givenFile, strippedFile.file)
        /\ SameSourceCodeInfo(givenFile, strippedFile.file)

(***************************************************************************)
(* C20, amended.  The same of the options, of the children and of every    *)
(* other field but the source code info of the file, which is absent if    *)
(* the input's is and else has locations of the input's, in their order.   *)
(***************************************************************************)
RECURSIVE IsSubsequence(_, _)
IsSubsequence(s, t) ==
    IF s = <<>> THEN TRUE
    ELSE IF t = <<>> THEN FALSE
    ELSE IF Head(s) = Head(t) THEN IsSubsequence(Tail(s), Tail(t))
    ELSE IsSubsequence(s, Tail(t))

C20_ResultButSourceCodeInfo ==
    strippedFile.called =>
        /\ DescriptorResult(givenFile, strippedFile.file)
        /\ strippedFile.file.SourceCodeInfo.isNil
             = givenFile.SourceCodeInfo.isNil
        /\ IsSubsequence(strippedFile.file.SourceCodeInfo.Location,
                         givenFile.SourceCodeInfo.Location)

\* The options of the file have both fields and those of the first message
\* the field of source retention only, and the file has locations: the
\* result keeps one field in the options of the file, the message has no
\* options, and locations are gone.
C20_Witness ==
    /\ strippedFile.called
    /\ givenFile.options = OptionsOf(1, "mixed")
    /\ givenFile.children[1][1].options = OptionsOf(2, "source")
    /\ givenFile.SourceCodeInfo.Location = Locations
    /\ strippedFile.file.options.fields = {OptionField(1, FALSE, 1)}
    /\ strippedFile.file.children[1][1].options.isNil
    /\ Len(strippedFile.file.SourceCodeInfo.Location) < Len(Locations)
    /\ strippedFile.file.children[1][2] = givenFile.children[1][2]

(***************************************************************************)
(* C21.  Source-location pruning: when the file has locations and an       *)
(* option is removed, the locations of the result are the input's, in      *)
(* their order, but those whose path is, or starts with, the path from the *)
(* file to a removed field of options or to options removed as a whole.    *)
(***************************************************************************)
\* The numbers descriptor.proto gives the options of a descriptor and its
\* repeated fields of descriptors, in the order the children are held.
NumberOfOptions(kind) ==
    CASE kind = "file" -> 8
      [] kind = "message" -> 7
      [] kind = "field" -> 8
      [] kind = "oneof" -> 2
      [] kind = "extensionRange" -> 3
      [] kind = "enum" -> 3
      [] kind = "enumValue" -> 3
      [] kind = "service" -> 3
      [] kind = "method" -> 4

NumbersOfChildren(kind) ==
    CASE kind = "file" -> <<4, 5, 7, 6>>
      [] kind = "message" -> <<2, 8, 5, 3, 4, 6>>
      [] kind = "enum" -> <<2>>
      [] kind = "service" -> <<2>>
      [] OTHER -> <<>>

RemovedOfOptions(options, at) ==
    IF ~hasFieldToStrip(options) THEN {}
    ELSE IF \A field \in options.fields : field.source THEN {at}
    ELSE {Append(at, field.number) : field \in {f \in options.fields : f.source}}

RECURSIVE RemovedBelow(_, _)
RemovedBelow(descriptor, at) ==
    RemovedOfOptions(descriptor.options,
                     Append(at, NumberOfOptions(descriptor.kind)))
    \cup UNION {UNION {RemovedBelow(descriptor.children[i][j],
                           at \o <<NumbersOfChildren(descriptor.kind)[i], j - 1>>)
                       : j \in DOMAIN descriptor.children[i]}
                : i \in DOMAIN descriptor.children}

RECURSIVE Without(_, _)
Without(location, removedPaths) ==
    IF location = <<>> THEN <<>>
    ELSE (IF \E removed \in removedPaths : HasPrefix(Head(location), removed)
          THEN <<>> ELSE <<Head(location)>>)
         \o Without(Tail(location), removedPaths)

C21_Pruning ==
    (/\ strippedFile.called
     /\ HasLocations(givenFile)
     /\ RemovedBelow(givenFile, <<>>) # {})
    => strippedFile.file.SourceCodeInfo.Location
         = Without(givenFile.SourceCodeInfo.Location,
                   RemovedBelow(givenFile, <<>>))

\* The value of the enum of the first message has options with both fields
\* and the file has options with the field of source retention only: the
\* locations of the options of the file and of the one field of the
\* options of the value are gone, five of all.
C21_Witness ==
    /\ strippedFile.called
    /\ givenFile.SourceCodeInfo.Location = Locations
    /\ RemovedBelow(givenFile, <<>>) = {<<8>>, <<4, 0, 4, 0, 2, 0, 3, 2>>}
    /\ Len(strippedFile.file.SourceCodeInfo.Location) = Len(Locations) - 5
    /\ strippedFile.file.SourceCodeInfo.Location[1] = <<>>
    /\ strippedFile.file.SourceCodeInfo.Location[2] = <<4, 0>>

(***************************************************************************)
(* C22.  CompilerVersion.String: "Major.Minor.Patch", without ".Patch"     *)
(* exactly when Major <= 3 and Patch = 0, followed by "-Suffix" exactly    *)
(* when the suffix is not empty; the empty string for nil.                 *)
(***************************************************************************)
MajorMinor(c) == Decimal(c.Major) \o <<".">> \o Decimal(c.Minor)

Rendering(c) ==
    (IF c.Major <= 3 /\ c.Patch = 0 THEN MajorMinor(c)
     ELSE MajorMinor(c) \o <<".">> \o Decimal(c.Patch))
    \o (IF c.Suffix # <<>> THEN <<"-">> \o c.Suffix ELSE <<>>)

C22_String ==
    versionString.called =>
        versionString.value =
            IF compilerVersion.isNil THEN <<>> ELSE Rendering(compilerVersion)

(***************************************************************************)
(* C23.  Compute once: whatever the goroutines do, f is called at most     *)
(* once; a call of the function onceValue returned returns only after f    *)
(* has returned, and every call returns what that one call of f returned.  *)
(***************************************************************************)
C23_ComputeOnce ==
    /\ onceValueVars.computations <= 1
    /\ \A t \in Threads : \A i \in DOMAIN onceReturned[t] :
         /\ onceValueVars.computations = 1
         /\ onceReturned[t][i] = ResultOfCall(1)

\* Two goroutines went through the mutex, a third found done set, and one
\* goroutine called twice: all got the result of the one call of f.
C23_Witness ==
    /\ onceValueVars.computations = 1
    /\ \A t \in Threads : Len(onceReturned[t]) >= 1
    /\ \E t \in Threads : Len(onceReturned[t]) = 2
    /\ \A t \in Threads : \A i \in DOMAIN onceReturned[t] :
         onceReturned[t][i] = ResultOfCall(1)

(***************************************************************************)
(* C24.  The view with source-retention options.  WithSourceRetention-     *)
(* Options on an accepted request fails when source_file_descriptors is    *)
(* empty.  When it is not, AllFileDescriptorProtos of the Request it       *)
(* returns has the length and order of proto_file, with the descriptor of  *)
(* source_file_descriptors of the same name in the place of every          *)
(* descriptor file_to_generate names, and the descriptor of proto_file     *)
(* itself in every other place.  The CodeGeneratorRequest is not changed.  *)
(***************************************************************************)
SourceRetentionView(refs) ==
    /\ Len(refs) = Len(codeGeneratorRequest.ProtoFile)
    /\ \A i \in 1..Len(refs) :
         IF codeGeneratorRequest.ProtoFile[i].Name
                \in Elements(codeGeneratorRequest.FileToGenerate)
         THEN /\ refs[i].list = "source_file_descriptors"
              /\ Descriptor(codeGeneratorRequest, refs[i]).Name
                     = codeGeneratorRequest.ProtoFile[i].Name
         ELSE refs[i] = ProtoFileRef(i)

C24_View ==
    /\ accessed.op = "WithSourceRetentionOptions" =>
         IF Len(codeGeneratorRequest.SourceFileDescriptors) = 0
         THEN accessed.err # "" /\ ~request.sourceRetentionOptions
         ELSE accessed.err = "" /\ request.sourceRetentionOptions
    /\ request.sourceRetentionOptions =>
         Len(codeGeneratorRequest.SourceFileDescriptors) > 0
    /\ (accessed.op = "AllFileDescriptorProtos" /\ request.sourceRetentionOptions)
         => SourceRetentionView(accessed.refs)

C24_SourceRetentionView ==
    []C24_View /\ [][codeGeneratorRequest' = codeGeneratorRequest]_vars

\* file_to_generate is a.proto, proto_file holds a.proto and b.proto and
\* source_file_descriptors a.proto: the list is the a.proto of
\* source_file_descriptors and the b.proto of proto_file.
C24_Witness ==
    /\ accessed.op = "AllFileDescriptorProtos"
    /\ request.sourceRetentionOptions
    /\ codeGeneratorRequest.FileToGenerate = <<PathA>>
    /\ Len(codeGeneratorRequest.ProtoFile) = 2
    /\ codeGeneratorRequest.ProtoFile[2].Name = PathB
    /\ accessed.refs = <<SourceFileDescriptorRef(1), ProtoFileRef(2)>>

(***************************************************************************)
(* C27.  Duplicate criterion: a record of the merged list is treated as a  *)
(* duplicate exactly when it has no insertion point and an earlier record  *)
(* with the same final name and no insertion point exists.  Strict mode    *)
(* fails with the duplicate error exactly when such a record exists;       *)
(* lenient mode keeps exactly the other records, in order, so that an      *)
(* earlier record with an insertion point never makes a later record       *)
(* without one a duplicate.                                                *)
(***************************************************************************)
DuplicateOfPlainRecord(files, i) ==
    /\ files[i].InsertionPoint = ""
    /\ \E j \in 1..(i - 1) :
           /\ files[j].InsertionPoint = ""
           /\ Clean(files[j].Name) = Clean(files[i].Name)
NotDuplicates(files) ==
    LET keep(i) == ~DuplicateOfPlainRecord(files, i)
        idx == Indices(files, keep, 1)
    IN  [k \in 1..Len(idx) |-> WithCanonicalName(files[idx[k]])]
C27_Input ==
    /\ FirstFinalize
    /\ MergeOfInput.err = ""
    /\ \A i \in 1..Len(MergedInput) : Accepted(MergedInput[i].Name)
C27_DuplicateCriterion ==
    C27_Input =>
        /\ (~lenient /\ \A i \in 1..Len(MergedInput) : Canonical(MergedInput[i].Name)) =>
              (ret.err = "duplicate file name"
                  <=> \E i \in 1..Len(MergedInput) :
                          DuplicateOfPlainRecord(MergedInput, i))
        /\ (lenient /\ ret.present) =>
              codeGeneratorResponse.File = NotDuplicates(MergedInput)

(***************************************************************************)
(* C28.  No upward escape: when validateAndNormalizePath accepts a path,   *)
(* the first segment of the path it returns is not "..".                   *)
(***************************************************************************)
RECURSIVE FirstSegmentFrom(_, _)
FirstSegmentFrom(p, i) ==
    IF i > Len(p) \/ p[i] = "/" THEN <<>>
    ELSE <<p[i]>> \o FirstSegmentFrom(p, i + 1)
FirstSegment(p) == FirstSegmentFrom(p, 1)
C28_NoUpwardEscape ==
    (firstPass.called /\ firstPass.err = "") =>
        FirstSegment(firstPass.path) # <<".", ".">>

(***************************************************************************)
(* C30.  A finalized response is frozen: once ToCodeGeneratorResponse has  *)
(* returned a response, no later call on the responseWriter changes the    *)
(* files, the error message, the feature mask or the editions of that      *)
(* response.                                                               *)
(***************************************************************************)
C30_Frozen ==
    [][ret.present => codeGeneratorResponse' = codeGeneratorResponse]_vars

(***************************************************************************)
(* C25.  No lost updates: whatever the interleaving of the AddFile and     *)
(* AddCodeGeneratorResponseFiles calls of the goroutines, as long as no    *)
(* ToCodeGeneratorResponse has begun the file list holds every record of   *)
(* every call that returned exactly once and nothing else, the records of  *)
(* one call next to each other and in the order given.                     *)
(***************************************************************************)
BeforeFinalize ==
    /\ ~written /\ finalized = <<>>
    /\ \A g \in Goroutines : goroutines[g].pc \notin {"written", "mark", "validate"}
RECURSIVE RecordsPassed(_, _)
RecordsPassed(calls_, k) ==
    IF k > Len(calls_) THEN 0
    ELSE Len(calls_[k].files) + RecordsPassed(calls_, k + 1)
OccurrencesOfRecord(files, record) ==
    Cardinality({i \in 1..Len(files) : files[i] = record})
Contiguous(files, part) ==
    \E offset \in 0..(Len(files) - Len(part)) :
        SubSeq(files, offset + 1, offset + Len(part)) = part
C25_NoLostUpdates ==
    BeforeFinalize =>
        /\ Len(codeGeneratorResponse.File) = RecordsPassed(completed, 1)
        /\ \A k \in 1..Len(completed) :
               /\ Contiguous(codeGeneratorResponse.File, completed[k].files)
               /\ \A i \in 1..Len(completed[k].files) :
                      OccurrencesOfRecord(codeGeneratorResponse.File, completed[k].files[i]) = 1
\* Goroutine 2 added two records and goroutine 1 one; goroutine 1 holds the
\* lock again, in a third call, while goroutine 2 is idle.
C25_Witness ==
    /\ BeforeFinalize
    /\ Len(completed) = 2
    /\ completed[1].goroutine = 2 /\ Len(completed[1].files) = 2
    /\ completed[2].goroutine = 1 /\ Len(completed[2].files) = 1
    /\ Len(codeGeneratorResponse.File) = 3
    /\ lock.writer = 1 /\ goroutines[1].pc = "append"

(***************************************************************************)
(* C26.  ToCodeGeneratorResponse excludes itself: among the calls of the   *)
(* goroutines at most one is past the test of r.written, running the       *)
(* validation or returned from it, and every other call that returned got  *)
(* the error of a reused writer.                                           *)
(***************************************************************************)
Validating == {g \in Goroutines : goroutines[g].pc \in {"mark", "validate"}}
Validated == {k \in 1..Len(finalized) : finalized[k].err # ReusedError}
C26_FinalizeExclusive ==
    Cardinality(Validating) + Cardinality(Validated) <= 1

(***************************************************************************)
(* C29.  SetFeatureSupportsEditions is atomic: when no goroutine is in a   *)
(* call and some SetFeatureSupportsEditions has returned, the stored       *)
(* minimumEdition and maximumEdition are the arguments of one of the       *)
(* calls (so that they are in order, each call's being so); and no         *)
(* ToCodeGeneratorResponse finds the editions bit set with an edition not  *)
(* set.                                                                    *)
(***************************************************************************)
EditionsCalls == {k \in 1..Len(completed) : completed[k].op = "SetFeatureSupportsEditions"}
C29_Atomic ==
    /\ ((\A g \in Goroutines : goroutines[g].pc = "idle") /\ EditionsCalls # {}) =>
           /\ \E k \in EditionsCalls :
                  /\ codeGeneratorResponse.MinimumEdition = completed[k].minimumEdition
                  /\ codeGeneratorResponse.MaximumEdition = completed[k].maximumEdition
           /\ codeGeneratorResponse.MinimumEdition <= codeGeneratorResponse.MaximumEdition
    /\ \A k \in Validated :
           EditionsBit(finalized[k].response.SupportedFeatures) =>
               /\ finalized[k].response.MinimumEdition # 0
               /\ finalized[k].response.MaximumEdition # 0

====
